---- MODULE Spec2Model ----
(***************************************************************************)
(* A model of the golem-des marketplace simulator: the event engine        *)
(* (gd-engine), the task model, the requestor with its redundancy          *)
(* verification, the providers and the World event loop (gd-world).        *)
(*                                                                         *)
(* Reals of the program (time, prices, usages, ratings) are modelled by    *)
(* integers in fixed units; ratings, which the program multiplies and      *)
(* divides, are exact fractions <<numerator, denominator>>.                *)
(***************************************************************************)
EXTENDS Integers, Sequences, FiniteSets, Bags, TLC

VARIABLES
    \* gd-engine: Engine
    now,                \* Engine::now
    events,             \* Engine::events, a bag of EventWrapper records
    \* gd-world: World
    pc,                 \* where World::run is: "init", "running", "stopped", "panic"
    requestors,         \* World::requestors, one Requestor record per id
    providers,          \* World::providers, one provider record per id
    \* observations of the last handler (history variables)
    lastEvent,          \* the event wrapper the loop popped last
    lastBids,           \* the offers the last handle_advertise collected
    paid,               \* the payments sent so far for each subtask: how many, their sum
    lastMessages,       \* what the last select_offers returned
    lastVerify,         \* the last verify_subtask: entry before, result, status
    lastCleared,        \* per requestor: the task complete_task cleared last
    pulledOver,         \* per requestor: advertise pulled while a task was current
    crossed,            \* per requestor: providers whose rating an update took to >= 2.0
    noBid,              \* per requestor: its last advertisement assigned nothing
    \* observations of the engine on its own
    popped,             \* what the last Engine::pop returned
    popCount,           \* number of pop calls
    lastPopTime,        \* scheduled time of the previous event popped (-1: none)
    schedLog,           \* per scheduled test event: <<now at scheduling, after>>
    \* two replications of one configuration and seed
    detOrder,           \* per run: the HashMap iteration order of the providers
    detMessages,        \* per run: what select_offers returned
    detStats,           \* per run: the order of into_stats' output
    \* a defence mechanism driven on its own (requestor/defence)
    dm,                 \* the DefenceMechanism: common state and that of its kind
    dmTask,             \* the Task handed to assign_subtasks
    dmFlight,           \* the messages assign_subtasks returned that await a result
    dmCall,             \* the last call on the mechanism: arguments, state before, result
    BASE_VALUE,         \* id.rs: the process-wide counter of Id::new
    idThreads,          \* the replications that call Id::new: where each is, the ids it got
    task_queue,         \* a TaskQueue on its own: buffer and repeating
    callLog             \* the calls made on the part exercised: arguments and result

vars == <<now, events, pc, requestors, providers,
          lastEvent, lastBids, paid, lastMessages, lastVerify, lastCleared, pulledOver,
          crossed, noBid, popped, popCount, lastPopTime, schedLog,
          detOrder, detMessages, detStats, dm, dmTask, dmFlight, dmCall,
          BASE_VALUE, idThreads, task_queue, callLog>>

worldObs == <<lastEvent, lastBids, paid, lastMessages, lastVerify, lastCleared, pulledOver,
              crossed, noBid>>

engineLog == <<popped, lastPopTime, schedLog>>
engineObs == <<popped, popCount, lastPopTime, schedLog>>

detVars == <<detOrder, detMessages, detStats>>

dmVars == <<dm, dmTask, dmFlight, dmCall>>

\* the state of the parts exercised on their own
unitVars == <<BASE_VALUE, idThreads, task_queue, callLog>>

-----------------------------------------------------------------------------
(* Bounds of the model. *)

\* World::run's deadline `until`
Until == 140
\* schedule calls explored on the engine alone
MaxScheduled == 4
\* pop calls explored on the engine alone
MaxPops == 5
\* the largest delay `after` explored on the engine alone
MaxAfter == 2
\* subtasks a provider is sent when providers are driven on their own
MaxAssigned == 2

-----------------------------------------------------------------------------
(* Program constants. *)

REDUNDANCY_FACTOR == 2
READVERT_DELAY == 60
\* MAX_RATING = 2.0
MAX_RATING == 2
\* 1 / ALPHA and 1 / BETA (ALPHA = BETA = 1e-5): profit margins and prices are
\* fixed-point numbers with this many units to 1.0
ALPHA_INV == 100000
BETA_INV == 100000
MarginUnit == ALPHA_INV

-----------------------------------------------------------------------------
(* Exact fractions <<n, d>> with d > 0, for the ratings and the mean cost. *)

RECURSIVE GCD(_, _)
GCD(a, b) == IF b = 0 THEN a ELSE GCD(b, a % b)

Frac(n, d) == LET g == GCD(n, d) IN IF g = 0 THEN <<0, 1>> ELSE <<n \div g, d \div g>>
FracMul(x, y) == Frac(x[1] * y[1], x[2] * y[2])
FracDiv(x, y) == Frac(x[1] * y[2], x[2] * y[1])
\* sums and differences over the least common denominator
FracAdd(x, y) ==
    LET g == GCD(x[2], y[2])
    IN  Frac(x[1] * (y[2] \div g) + y[1] * (x[2] \div g), (x[2] \div g) * y[2])
FracSub(x, y) ==
    LET g == GCD(x[2], y[2])
    IN  Frac(x[1] * (y[2] \div g) - y[1] * (x[2] \div g), (x[2] \div g) * y[2])
FracLt(x, y) == x[1] * y[2] < y[1] * x[2]
FracGe(x, y) == ~FracLt(x, y)
FracInt(n) == <<n, 1>>

Min(a, b) == IF a <= b THEN a ELSE b

-----------------------------------------------------------------------------
(* gd-engine: the event queue. *)

\* Option::None of Engine::pop
NoEvent == [time |-> -1, event |-> 0]

EventWrapper(time, event) == [time |-> time, event |-> event]

\* Engine::schedule: the event's time is now + after
schedule(q, t, after, event) == q (+) SetToBag({EventWrapper(t + after, event)})

\* The heap's maximum under EventWrapper's reversed Ord: an event of the smallest
\* time; among equal times the heap's layout decides, here any of them.
EarliestAlt(q) == {w \in BagToSet(q) : \A v \in BagToSet(q) : ~(v.time > w.time)}
Earliest(q) == {w \in BagToSet(q) : \A v \in BagToSet(q) : ~(v.time < w.time)}

\* BinaryHeap::pop's removal of the chosen element
remove(q, w) == q (-) SetToBag({w})

\* Engine::pop: the outcomes, each the engine after the call and what it returned
pop(q, t) ==
    IF q = EmptyBag
    THEN {[now |-> t, events |-> q, wrapper |-> NoEvent]}
    ELSE {[now |-> w.time, events |-> remove(q, w), wrapper |-> w] : w \in Earliest(q)}

-----------------------------------------------------------------------------
(* The engine on its own: any interleaving of schedule and pop, as in        *)
(* tests::event_queue, whose events are integers.                            *)

Idle0 == [r \in {} |-> 0]

\* the parts exercised on their own are not in use
NoUnit ==
    /\ BASE_VALUE = 0
    /\ idThreads = Idle0
    /\ task_queue = Idle0
    /\ callLog = <<>>

\* no verify_subtask call observed yet
NoVerify ==
    [requestor_id |-> 0, subtask |-> 0, provider_id |-> 0, before |-> <<>>,
     some |-> FALSE, status |-> "None", removed |-> FALSE]


EngineInit ==
    /\ now = 0
    /\ events = EmptyBag
    /\ pc = "engine"
    /\ requestors = Idle0
    /\ providers = Idle0
    /\ lastEvent = NoEvent
    /\ lastBids = {}
    /\ paid = <<>>
    /\ NoUnit
    /\ lastMessages = <<>>
    /\ lastVerify = NoVerify
    /\ lastCleared = Idle0
    /\ pulledOver = Idle0
    /\ crossed = Idle0
    /\ noBid = Idle0
    /\ popped = NoEvent
    /\ popCount = 0
    /\ lastPopTime = -1
    /\ schedLog = <<>>
    /\ detOrder = <<>>
    /\ detMessages = <<>>
    /\ detStats = <<>>
    /\ dm = Idle0
    /\ dmTask = Idle0
    /\ dmFlight = Idle0
    /\ dmCall = Idle0

EngSchedule ==
    /\ pc = "engine"
    /\ Len(schedLog) < MaxScheduled
    /\ \E after \in 0..MaxAfter :
          /\ events' = schedule(events, now, after, Len(schedLog) + 1)
          /\ schedLog' = Append(schedLog, <<now, after>>)
    /\ UNCHANGED <<now, pc, requestors, providers, worldObs, popped, popCount,
                   lastPopTime, detVars, dmVars, unitVars>>

EngPop ==
    /\ pc = "engine"
    /\ popCount < MaxPops
    /\ \E o \in pop(events, now) :
          /\ now' = o.now
          /\ events' = o.events
          /\ popped' = o.wrapper
          /\ lastPopTime' = IF popped.time = -1 THEN lastPopTime ELSE popped.time
    /\ popCount' = popCount + 1
    /\ UNCHANGED <<pc, requestors, providers, worldObs, schedLog, detVars, dmVars, unitVars>>

EngNext == EngSchedule \/ EngPop

SpecEngine == EngineInit /\ [][EngNext]_vars

\* C2: time monotonicity of the engine. In every step now does not decrease; a pop
\* of a non-empty queue returns an event, sets now to its scheduled time, which is
\* now at its scheduling plus its delay and is not below the time of the event
\* popped before it; a pop of the empty queue returns none and leaves now and the
\* queue as they are.
C2_TimeMonotonicity ==
    [][ /\ now' >= now
        /\ popCount' # popCount =>
              IF events = EmptyBag
              THEN popped'.time = -1 /\ now' = now /\ events' = events
              ELSE /\ popped'.time # -1
                   /\ now' = popped'.time
                   /\ popped'.time >= lastPopTime'
                   /\ popped'.time
                        = schedLog[popped'.event][1] + schedLog[popped'.event][2]
      ]_vars

\* C2's case: a second event popped later than the first, others still queued
C2_Witness ==
    /\ popCount >= 2
    /\ popped.time # -1
    /\ lastPopTime # -1
    /\ popped.time > lastPopTime
    /\ events # EmptyBag

-----------------------------------------------------------------------------
(* The configuration of a replication (params: RequestorSpec, ProviderSpec). *)

Requestors == {1, 2}
Providers == {1, 2, 3, 4}
\* the provider populations explored: a lone provider, and all four
ProviderSets == {{1}, Providers}

max_price(r) == IF r = 1 THEN 7 ELSE 3
budget_factor(r) == 1
\* subtask_count of each TaskSpec of the requestor's queue
TaskSpecs(r) == IF r = 1 THEN <<1, 2>> ELSE <<1>>
\* nominal_usage of every subtask, in seconds at unit efficiency
NominalUsage == 20

min_price(p) == IF p <= 2 THEN 1 ELSE 2
usage_factor(p) == IF p = 4 THEN 2 ELSE 1
behaviour(p) == CASE p = 2 -> "LinearUsageInflation" [] p = 3 -> "UndercutBudget"
                     [] OTHER -> "Regular"
\* LinearUsageInflationProvider::inflation_factor
inflation_factor(p) == 20
\* UndercutBudgetProvider::epsilon, as a fraction
epsilon(p) == <<1, 2>>
\* RegularProvider's Normal(0, USAGE_JITTER) sample times the usage: the 5% of
\* NominalUsage, as the draws the model explores
Jitter == {0, 1}
\* Exp(1 / MEAN_TASK_ARRIVAL_TIME) samples the model explores, in seconds
ExpSamples == {30, 45}

-----------------------------------------------------------------------------
(* gd-world: task.rs *)

NoTask == [id |-> 0, size |-> 0, pending |-> <<>>, done |-> <<>>]

\* Task::new (Default)
Task_new(id) == [id |-> id, size |-> 0, pending |-> <<>>, done |-> <<>>]

\* Task::push_pending
push_pending(t, subtask) == [t EXCEPT !.size = @ + 1, !.pending = Append(@, subtask)]

\* Task::pop_pending: the task after the call (the front is PendingFront)
PendingFront(t) == Head(t.pending)
\* a pop that leaves the front in the deque
pop_pending_keep(t) == t
pop_pending(t) == [t EXCEPT !.pending = Tail(@)]

push_done(t, subtask) == [t EXCEPT !.done = Append(@, subtask)]

is_pending(t) == t.pending # <<>>

is_done(t) == Len(t.done) = t.size

\* SubTask::new with the budget TaskSpec::as_task derives, in fixed-point currency
SubTask(id, r) ==
    [id |-> id, nominal_usage |-> NominalUsage,
     budget |-> MarginUnit * max_price(r) * budget_factor(r) * NominalUsage]

NoSubTask == [id |-> 0, nominal_usage |-> 0, budget |-> 0]

\* TaskSpec::as_task: subtask_count calls of push_pending
RECURSIVE as_task_loop(_, _, _, _)
as_task_loop(t, r, k, n) ==
    IF n = 0 THEN t
    ELSE push_pending(as_task_loop(t, r, k, n - 1), SubTask(100 * r + 10 * k + n, r))

as_task(r, k) == as_task_loop(Task_new(100 * r + 10 * k), r, k, TaskSpecs(r)[k])

\* The number of subtasks task t of requestor r was created with
CreatedCount(r, t) == TaskSpecs(r)[(t.id - 100 * r) \div 10]

-----------------------------------------------------------------------------
(* gd-world: requestor/task_queue.rs *)

\* TaskQueue::push
TaskQueue_push(q, task) == [q EXCEPT !.buffer = Append(@, task)]

\* a pop that leaves the task at the front when repeating
TaskQueue_pop_front(q) ==
    [q EXCEPT !.buffer = IF q.repeating THEN @ ELSE Tail(@)]
\* a pop whose copy is a task of its own: other ids for the task and its subtasks
TaskQueue_pop_fresh(q) ==
    LET task == Head(q.buffer)
        copy == [task EXCEPT !.id = @ + 1000,
                             !.pending = [i \in DOMAIN @ |-> [@[i] EXCEPT !.id = @ + 1000]]]
    IN  [q EXCEPT !.buffer = IF q.repeating THEN Append(Tail(@), copy) ELSE Tail(@)]
\* TaskQueue::pop of a non-empty queue: the queue after the call (the task
\* returned is the front of the buffer)
TaskQueue_pop(q) ==
    [q EXCEPT !.buffer = IF q.repeating THEN Append(Tail(@), Head(@)) ELSE Tail(@)]

-----------------------------------------------------------------------------
(* gd-world: world.rs Event *)

TaskAdvertisement(r) ==
    [tag |-> "TaskAdvertisement", subtask |-> NoSubTask, requestor_id |-> r,
     provider_id |-> 0, bid |-> 0]
SubTaskComputed(subtask, r, p, bid) ==
    [tag |-> "SubTaskComputed", subtask |-> subtask, requestor_id |-> r,
     provider_id |-> p, bid |-> bid]
SubTaskBudgetExceeded(subtask, r, p) ==
    [tag |-> "SubTaskBudgetExceeded", subtask |-> subtask, requestor_id |-> r,
     provider_id |-> p, bid |-> 0]

NoWorldEvent == [time |-> -1, event |-> TaskAdvertisement(0)]

-----------------------------------------------------------------------------
(* gd-world: provider.rs and the strategies under provider/ *)

\* ProviderCommon::new
ProviderCommon_new(p) ==
    [id |-> p, min_price |-> min_price(p), usage_factor |-> usage_factor(p),
     state |-> "Idle", profit_margin |-> MarginUnit, last_checkpoint |-> 0,
     revenue |-> 0,
     num_subtasks_assigned |-> 0, num_subtasks_computed |-> 0,
     num_subtasks_cancelled |-> 0]

\* ProviderCommon::price: (1.0 + profit_margin) * min_price
price(prov) == (MarginUnit + prov.profit_margin) * prov.min_price

\* profit_margin *= exp(BETA * duration), to first order in BETA * duration
increase_profit_margin(prov, duration) ==
    [prov EXCEPT !.profit_margin = @ + (@ * duration) \div BETA_INV]

\* profit_margin *= exp(-ALPHA * duration), to first order in ALPHA * duration
decrease_profit_margin(prov, duration) ==
    [prov EXCEPT !.profit_margin = @ - (@ * duration) \div ALPHA_INV]

\* a send_benchmark that reports unit efficiency
send_benchmark_unit(prov) == 1
\* ProviderCommon::send_benchmark
send_benchmark(prov) == prov.usage_factor

\* a send_offer that offers whatever the state
send_offer_busy(prov) == {price(prov)}
\* ProviderCommon::send_offer: the offers, none when Busy
send_offer(prov) == IF prov.state = "Idle" THEN {price(prov)} ELSE {}

\* a receive_subtask for which a cost equal to the budget exceeds the budget
receive_subtask_at(prov, t, subtask, r, bid) ==
    LET busy == [prov EXCEPT !.state = "Busy", !.num_subtasks_assigned = @ + 1]
        dec == decrease_profit_margin(busy, t - prov.last_checkpoint)
        expected_usage == subtask.nominal_usage * prov.usage_factor
    IN  [provider |-> [dec EXCEPT !.last_checkpoint = t],
         sched |-> IF expected_usage * bid >= subtask.budget
                   THEN <<subtask.budget \div bid, SubTaskBudgetExceeded(subtask, r, prov.id)>>
                   ELSE <<expected_usage, SubTaskComputed(subtask, r, prov.id, bid)>>]
\* ProviderCommon::receive_subtask: the provider after the call and the one event
\* it schedules, <<after, event>>
receive_subtask(prov, t, subtask, r, bid) ==
    LET busy == [prov EXCEPT !.state = "Busy", !.num_subtasks_assigned = @ + 1]
        dec == decrease_profit_margin(busy, t - prov.last_checkpoint)
        expected_usage == subtask.nominal_usage * prov.usage_factor
    IN  [provider |-> [dec EXCEPT !.last_checkpoint = t],
         sched |-> IF expected_usage * bid > subtask.budget
                   THEN <<subtask.budget \div bid, SubTaskBudgetExceeded(subtask, r, prov.id)>>
                   ELSE <<expected_usage, SubTaskComputed(subtask, r, prov.id, bid)>>]

finish_computing(prov, t) ==
    LET idle == [prov EXCEPT !.state = "Idle", !.num_subtasks_computed = @ + 1]
        inc == increase_profit_margin(idle, t - prov.last_checkpoint)
    IN  [inc EXCEPT !.last_checkpoint = t]

\* a cancel_computing that does not count the subtask
cancel_computing_uncounted(prov, t) ==
    [prov EXCEPT !.state = "Idle", !.last_checkpoint = t]
\* a cancel_computing that lowers the margin as receive_subtask does
cancel_computing_margin(prov, t) ==
    [decrease_profit_margin(prov, t - prov.last_checkpoint)
        EXCEPT !.state = "Idle", !.num_subtasks_cancelled = @ + 1, !.last_checkpoint = t]
\* ProviderCommon::cancel_computing
cancel_computing(prov, t) ==
    [prov EXCEPT !.state = "Idle", !.num_subtasks_cancelled = @ + 1,
                 !.last_checkpoint = t]

\* a receive_payment that books no payment
receive_payment_none(prov, payment) == prov
\* ProviderCommon::receive_payment; payment -1 is None
receive_payment(prov, payment) ==
    IF payment = -1 THEN prov ELSE [prov EXCEPT !.revenue = @ + payment]

\* a report_usage whose LinearUsageInflation is not capped at budget / bid
report_usage_uncapped(prov, subtask, bid) ==
    {prov.num_subtasks_computed * inflation_factor(prov.id)
        + prov.usage_factor * subtask.nominal_usage}
\* Provider::report_usage of the three strategies: the usages it may report
report_usage(prov, subtask, bid) ==
    CASE behaviour(prov.id) = "Regular" ->
           {subtask.nominal_usage * prov.usage_factor + j : j \in Jitter}
      [] behaviour(prov.id) = "LinearUsageInflation" ->
           {Min(prov.num_subtasks_computed * inflation_factor(prov.id)
                  + prov.usage_factor * subtask.nominal_usage,
                subtask.budget \div bid)}
      [] OTHER ->
           {((subtask.budget \div bid) * (epsilon(prov.id)[2] - epsilon(prov.id)[1]))
               \div epsilon(prov.id)[2]}

-----------------------------------------------------------------------------
(* gd-world: requestor/verification.rs, requestor/defence/redundancy.rs *)

\* VerificationResult: None, or Some((provider id, usage / rating))
None == [some |-> FALSE, id |-> 0, d |-> <<0, 1>>]
Some(id, d) == [some |-> TRUE, id |-> id, d |-> d]

\* an insert_key that enters nothing
insert_key_none(map, key) == map
\* VerificationMap::insert_key
insert_key(map, key) == [k \in DOMAIN map \cup {key} |-> IF k = key THEN <<>> ELSE map[k]]

\* an insert_verification that returns on the first result of a key
insert_verification_first(map, key, res) ==
    [map |-> [k \in DOMAIN map \ {key} |-> map[k]], complete |-> TRUE,
     vers |-> SelectSeq(Append(map[key], res), LAMBDA v : v.some)]
\* VerificationMap::insert_verification on a key of the map: the map after the
\* call, and what it returns: nothing (complete = FALSE) or the non-null results
insert_verification(map, key, res) ==
    LET entry == Append(map[key], res)
    IN  IF Len(entry) = REDUNDANCY_FACTOR
        THEN [map |-> [k \in DOMAIN map \ {key} |-> map[k]], complete |-> TRUE,
              vers |-> SelectSeq(entry, LAMBDA v : v.some)]
        ELSE [map |-> [map EXCEPT ![key] = entry], complete |-> FALSE, vers |-> <<>>]

\* Requestor::update_rating / Redundancy::update_rating: the rating of p1 times
\* d1 / d2, and p1 blacklisted when that is >= 2.0
update_rating(rt, bl, p1, p2) ==
    LET new_rating == FracDiv(FracMul(rt[p1.id], p1.d), p2.d)
    IN  [ratings |-> [rt EXCEPT ![p1.id] = new_rating],
         blacklisted_set |-> IF FracGe(new_rating, FracInt(MAX_RATING))
                             THEN bl \cup {p1.id} ELSE bl]

\* Redundancy::verify_subtask, which Requestor::verify_subtask inlines: the
\* verification map, ratings and blacklist after the call and the status
Redundancy_verify_subtask(map, rt, bl, subtask, provider_id, reported_usage) ==
    LET ver_res == IF reported_usage = -1 THEN None
                   ELSE Some(provider_id,
                             FracDiv(FracInt(reported_usage), rt[provider_id]))
        ins == insert_verification(map, subtask.id, ver_res)
        vers == ins.vers
        upd == IF ins.complete /\ Len(vers) = REDUNDANCY_FACTOR
               THEN IF FracLt(vers[2].d, vers[1].d)
                    THEN update_rating(rt, bl, vers[1], vers[2])
                    ELSE update_rating(rt, bl, vers[2], vers[1])
               ELSE [ratings |-> rt, blacklisted_set |-> bl]
    IN  [map |-> ins.map, ratings |-> upd.ratings,
         blacklisted_set |-> upd.blacklisted_set,
         status |-> IF ~ins.complete THEN "Pending"
                    ELSE IF Len(vers) > 0 THEN "Done" ELSE "Cancelled"]

-----------------------------------------------------------------------------
(* gd-world: requestor.rs *)

\* Requestor::with_id, with the queue RequestorSpec::as_requestor appends
Requestor_with_id(r, rep) ==
    [id |-> r, max_price |-> max_price(r), budget_factor |-> budget_factor(r),
     task |-> NoTask,
     task_queue |-> [buffer |-> [k \in 1..Len(TaskSpecs(r)) |-> as_task(r, k)],
                     repeating |-> rep],
     ratings |-> [p \in {} |-> <<0, 1>>],
     blacklisted_set |-> {},
     verification_map |-> [k \in {} |-> <<>>],
     num_tasks_advertised |-> 0, num_tasks_computed |-> 0,
     mean_cost |-> <<0, FracInt(0)>>,
     num_readvertisements |-> 0, num_subtasks_computed |-> 0,
     num_subtasks_cancelled |-> 0]

\* an advertise that pulls a task without counting it
advertise_uncounted(req, sample) ==
    IF req.task # NoTask
    THEN IF is_pending(req.task)
         THEN [requestor |-> [req EXCEPT !.num_readvertisements = @ + 1],
               sched |-> {<<READVERT_DELAY, TaskAdvertisement(req.id)>>}]
         ELSE [requestor |-> req, sched |-> {}]
    ELSE IF req.task_queue.buffer # <<>>
         THEN [requestor |-> [req EXCEPT !.task = Head(req.task_queue.buffer),
                                         !.task_queue = TaskQueue_pop(@)],
               sched |-> {<<sample, TaskAdvertisement(req.id)>>}]
         ELSE [requestor |-> req, sched |-> {}]
\* an advertise whose re-advertisement is due at once
advertise_now(req, sample) ==
    IF req.task # NoTask
    THEN IF is_pending(req.task)
         THEN [requestor |-> [req EXCEPT !.num_readvertisements = @ + 1],
               sched |-> {<<0, TaskAdvertisement(req.id)>>}]
         ELSE [requestor |-> req, sched |-> {}]
    ELSE IF req.task_queue.buffer # <<>>
         THEN [requestor |-> [req EXCEPT !.task = Head(req.task_queue.buffer),
                                         !.task_queue = TaskQueue_pop(@),
                                         !.num_tasks_advertised = @ + 1],
               sched |-> {<<sample, TaskAdvertisement(req.id)>>}]
         ELSE [requestor |-> req, sched |-> {}]
\* Requestor::advertise: the requestor after the call and the events it
\* schedules, each <<after, event>>; sample is the Exp draw
advertise(req, sample) ==
    IF req.task # NoTask
    THEN IF is_pending(req.task)
         THEN [requestor |-> [req EXCEPT !.num_readvertisements = @ + 1],
               sched |-> {<<READVERT_DELAY, TaskAdvertisement(req.id)>>}]
         ELSE [requestor |-> req, sched |-> {}]
    ELSE IF req.task_queue.buffer # <<>>
         THEN [requestor |-> [req EXCEPT !.task = Head(req.task_queue.buffer),
                                         !.task_queue = TaskQueue_pop(@),
                                         !.num_tasks_advertised = @ + 1],
               sched |-> {<<sample, TaskAdvertisement(req.id)>>}]
         ELSE [requestor |-> req, sched |-> {}]

\* Requestor::receive_benchmark of the benchmark of every provider, as
\* World::started calls it: the rating of each starts at its usage factor
receive_benchmarks(req, provs) ==
    [req EXCEPT !.ratings = [p \in DOMAIN provs |-> FracInt(send_benchmark(provs[p]))]]

\* a filter that lets every bid through
filter_offers_none(bl, bids) == bids
\* Requestor::filter_offers
filter_offers(bl, bids) == SelectSeq(bids, LAMBDA b : b[1] \notin bl)

\* the effective price bid * rating of an offer <<provider id, bid>>
EffectivePrice(rt, b) == Frac(b[2] * rt[b[1]][1], rt[b[1]][2])

\* one step of the insertion sort sort_unstable_by runs on a slice this short:
\* b moves left past every offer it is strictly cheaper than
RECURSIVE insert_tail(_, _, _)
insert_tail(rt, sorted, b) ==
    IF sorted # <<>> /\ FracLt(EffectivePrice(rt, b), EffectivePrice(rt, sorted[Len(sorted)]))
    THEN Append(insert_tail(rt, SubSeq(sorted, 1, Len(sorted) - 1), b), sorted[Len(sorted)])
    ELSE Append(sorted, b)

\* Requestor::rank_offers: the offers by ascending effective price, those of equal
\* price in the order they came
RECURSIVE rank_offers(_, _)
rank_offers(rt, bids) ==
    IF bids = <<>> THEN <<>>
    ELSE insert_tail(rt, rank_offers(rt, SubSeq(bids, 1, Len(bids) - 1)), bids[Len(bids)])

\* the loop of Requestor::select_offers over bids.chunks_exact(REDUNDANCY_FACTOR),
\* from the chunk that starts at bids[i]
RECURSIVE select_loop(_, _, _, _, _)
select_loop(req, bids, i, messages, panic) ==
    IF panic \/ i + REDUNDANCY_FACTOR - 1 > Len(bids)
    THEN [requestor |-> req, messages |-> messages, panic |-> panic]
    ELSE IF req.task = NoTask
    THEN [requestor |-> req, messages |-> messages, panic |-> TRUE]
    ELSE IF ~is_pending(req.task)
    THEN [requestor |-> req, messages |-> messages, panic |-> FALSE]
    ELSE LET subtask == PendingFront(req.task)
         IN  select_loop(
                [req EXCEPT !.task = pop_pending(@),
                            !.verification_map = insert_key(@, subtask.id)],
                bids, i + REDUNDANCY_FACTOR,
                messages \o [j \in 1..REDUNDANCY_FACTOR |->
                                <<bids[i + j - 1][1], subtask, bids[i + j - 1][2]>>],
                FALSE)

\* Requestor::select_offers: the requestor after the call, the messages
\* <<provider id, subtask, bid>> and whether expect("task not found") aborted
select_offers(req, bids) ==
    select_loop(req, rank_offers(req.ratings, filter_offers(req.blacklisted_set, bids)),
                1, <<>>, FALSE)

\* a verify_subtask that counts every result as a computed subtask
verify_subtask_each(req, subtask, provider_id, reported_usage) ==
    IF subtask.id \notin DOMAIN req.verification_map
    THEN [requestor |-> req, status |-> "Pending", panic |-> TRUE]
    ELSE LET v == Redundancy_verify_subtask(req.verification_map, req.ratings,
                     req.blacklisted_set, subtask, provider_id, reported_usage)
             r1 == [req EXCEPT !.verification_map = v.map, !.ratings = v.ratings,
                               !.blacklisted_set = v.blacklisted_set]
         IN  CASE v.status = "Pending" ->
                    [requestor |-> [r1 EXCEPT !.num_subtasks_computed = @ + 1],
                     status |-> v.status, panic |-> FALSE]
               [] v.status = "Done" ->
                    [requestor |-> [r1 EXCEPT !.num_subtasks_computed = @ + 1,
                                              !.task = push_done(@, subtask)],
                     status |-> v.status, panic |-> req.task = NoTask]
               [] OTHER ->
                    [requestor |-> [r1 EXCEPT !.num_subtasks_cancelled = @ + 1,
                                              !.task = push_pending(@, subtask)],
                     status |-> v.status, panic |-> req.task = NoTask]
\* Requestor::verify_subtask; reported_usage -1 is None. panic: the verification
\* key or the task is missing
verify_subtask(req, subtask, provider_id, reported_usage) ==
    IF subtask.id \notin DOMAIN req.verification_map
    THEN [requestor |-> req, status |-> "Pending", panic |-> TRUE]
    ELSE LET v == Redundancy_verify_subtask(req.verification_map, req.ratings,
                     req.blacklisted_set, subtask, provider_id, reported_usage)
             r1 == [req EXCEPT !.verification_map = v.map, !.ratings = v.ratings,
                               !.blacklisted_set = v.blacklisted_set]
         IN  CASE v.status = "Pending" ->
                    [requestor |-> r1, status |-> v.status, panic |-> FALSE]
               [] v.status = "Done" ->
                    [requestor |-> [r1 EXCEPT !.num_subtasks_computed = @ + 1,
                                              !.task = push_done(@, subtask)],
                     status |-> v.status, panic |-> req.task = NoTask]
               [] OTHER ->
                    [requestor |-> [r1 EXCEPT !.num_subtasks_cancelled = @ + 1,
                                              !.task = push_pending(@, subtask)],
                     status |-> v.status, panic |-> req.task = NoTask]

\* a send_payment whose mean is the last cost over the budget
send_payment_last(req, subtask, bid, reported_usage) ==
    LET payment == reported_usage * bid
        count == req.mean_cost[1] + 1
        current_mean == req.mean_cost[2]
        current_cost_wrt_budget == Frac(bid * reported_usage, subtask.budget)
    IN  [requestor |-> [req EXCEPT !.mean_cost =
                           <<count, FracAdd(current_mean,
                                            FracSub(current_cost_wrt_budget, current_mean))>>],
         payment |-> payment]
\* Requestor::send_payment: the requestor after the call and the payment. The
\* cost over the budget and its running mean are exact fractions
send_payment(req, subtask, bid, reported_usage) ==
    LET payment == reported_usage * bid
        count == req.mean_cost[1] + 1
        current_mean == req.mean_cost[2]
        current_cost_wrt_budget == Frac(bid * reported_usage, subtask.budget)
    IN  [requestor |-> [req EXCEPT !.mean_cost =
                           <<count, FracAdd(current_mean,
                                            FracDiv(FracSub(current_cost_wrt_budget,
                                                            current_mean),
                                                    FracInt(count)))>>],
         payment |-> payment]

\* a complete_task that clears the task whether or not it is done
complete_task_any(req) ==
    [requestor |-> [req EXCEPT !.num_tasks_computed = @ + 1, !.task = NoTask],
     panic |-> req.task = NoTask, cleared |-> TRUE]
\* Requestor::complete_task; panic: expect("task not found")
complete_task(req) ==
    IF req.task = NoTask
    THEN [requestor |-> req, panic |-> TRUE, cleared |-> FALSE]
    ELSE IF is_done(req.task)
    THEN [requestor |-> [req EXCEPT !.num_tasks_computed = @ + 1, !.task = NoTask],
          panic |-> FALSE, cleared |-> TRUE]
    ELSE [requestor |-> req, panic |-> FALSE, cleared |-> FALSE]

-----------------------------------------------------------------------------
(* gd-world: world.rs *)

\* the orders in which a HashMap may iterate over the keys S
Orders(S) ==
    {f \in [1..Cardinality(S) -> S] : \A i, j \in DOMAIN f : i # j => f[i] # f[j]}

\* World::schedule_advertise: advertise of every requestor (the shuffled order
\* only orders the schedule calls); samples[r] is the Exp draw of requestor r
schedule_advertise(reqs, q, t, samples) ==
    LET adv(r) == advertise(reqs[r], samples[r])
    IN  [requestors |-> [r \in DOMAIN reqs |-> adv(r).requestor],
         events |-> q (+) SetToBag({EventWrapper(t + s[1], s[2]) :
                                       s \in UNION {adv(r).sched : r \in DOMAIN reqs}}),
         pulledOver |-> {r \in DOMAIN reqs :
                            /\ adv(r).requestor.num_tasks_advertised
                                 # reqs[r].num_tasks_advertised
                            /\ reqs[r].task # NoTask}]

\* the Exp draws a schedule_advertise call may make, one for each requestor
Samples(reqs) == [DOMAIN reqs -> ExpSamples]

\* the snapshot of a task at the moment complete_task clears it
Cleared(req) ==
    [task |-> req.task, in_flight |-> Cardinality(DOMAIN req.verification_map)]

NoneCleared == [task |-> NoTask, in_flight |-> 0]

WorldInit ==
    /\ now = 0
    /\ events = EmptyBag
    /\ pc = "init"
    /\ \E rep \in BOOLEAN : requestors = [r \in Requestors |-> Requestor_with_id(r, rep)]
    /\ \E population \in ProviderSets :
          providers = [p \in population |-> ProviderCommon_new(p)]
    /\ lastEvent = NoWorldEvent
    /\ lastBids = {}
    /\ paid = <<>>
    /\ NoUnit
    /\ lastMessages = <<>>
    /\ lastVerify = NoVerify
    /\ lastCleared = [r \in Requestors |-> NoneCleared]
    /\ pulledOver = [r \in Requestors |-> FALSE]
    /\ crossed = [r \in Requestors |-> {}]
    /\ noBid = [r \in Requestors |-> 0]
    /\ popped = NoEvent
    /\ popCount = 0
    /\ lastPopTime = -1
    /\ schedLog = <<>>
    /\ detOrder = <<>>
    /\ detMessages = <<>>
    /\ detStats = <<>>
    /\ dm = Idle0
    /\ dmTask = Idle0
    /\ dmFlight = Idle0
    /\ dmCall = Idle0

\* the replications that run to the later deadline: the three providers of
\* unit efficiency, without the slow one
LatePopulation == {1, 2, 3}
\* the later deadline, in seconds
UntilLate == 160

\* the until of World::run of this replication
until == IF DOMAIN providers = LatePopulation THEN UntilLate ELSE Until

\* the start of the replications of a lone provider and of the late population
LateInit ==
    /\ now = 0
    /\ events = EmptyBag
    /\ pc = "init"
    /\ \E rep \in BOOLEAN : requestors = [r \in Requestors |-> Requestor_with_id(r, rep)]
    /\ \E population \in {{1}, LatePopulation} :
          providers = [p \in population |-> ProviderCommon_new(p)]
    /\ lastEvent = NoWorldEvent
    /\ lastBids = {}
    /\ paid = <<>>
    /\ NoUnit
    /\ lastMessages = <<>>
    /\ lastVerify = NoVerify
    /\ lastCleared = [r \in Requestors |-> NoneCleared]
    /\ pulledOver = [r \in Requestors |-> FALSE]
    /\ crossed = [r \in Requestors |-> {}]
    /\ noBid = [r \in Requestors |-> 0]
    /\ popped = NoEvent
    /\ popCount = 0
    /\ lastPopTime = -1
    /\ schedLog = <<>>
    /\ detOrder = <<>>
    /\ detMessages = <<>>
    /\ detStats = <<>>
    /\ dm = Idle0
    /\ dmTask = Idle0
    /\ dmFlight = Idle0
    /\ dmCall = Idle0

\* World::started: the benchmarks, then schedule_advertise
Started ==
    /\ pc = "init"
    /\ \E samples \in Samples(requestors) :
          LET seeded == [r \in Requestors |-> receive_benchmarks(requestors[r], providers)]
              sa == schedule_advertise(seeded, events, now, samples)
          IN  /\ requestors' = sa.requestors
              /\ events' = sa.events
              /\ pulledOver' = [r \in Requestors |-> pulledOver[r] \/ r \in sa.pulledOver]
    /\ pc' = "running"
    /\ UNCHANGED <<now, providers, lastEvent, lastBids, paid, lastMessages, lastVerify,
                   lastCleared,
                   crossed, noBid, engineObs, detVars, dmVars, unitVars>>

\* World::run: the queue is empty, the loop ends
Drained ==
    /\ pc = "running"
    /\ events = EmptyBag
    /\ pc' = "stopped"
    /\ popCount' = popCount + 1
    /\ UNCHANGED <<now, events, requestors, providers, worldObs, engineLog, detVars, dmVars, unitVars>>

\* a loop that also ends at an event at the deadline itself
Deadline_at ==
    /\ pc = "running"
    /\ \E o \in pop(events, now) :
          /\ o.wrapper.time # -1
          /\ until <= o.now
          /\ now' = o.now
          /\ events' = o.events
    /\ pc' = "stopped"
    /\ popCount' = popCount + 1
    /\ UNCHANGED <<requestors, providers, worldObs, engineLog, detVars, dmVars, unitVars>>
\* World::run: the popped event is past the deadline; it is dropped, the loop ends
Deadline ==
    /\ pc = "running"
    /\ \E o \in pop(events, now) :
          /\ o.wrapper.time # -1
          /\ until < o.now
          /\ now' = o.now
          /\ events' = o.events
    /\ pc' = "stopped"
    /\ popCount' = popCount + 1
    /\ UNCHANGED <<requestors, providers, worldObs, engineLog, detVars, dmVars, unitVars>>

\* the providers after receive_subtask of every message, and the events scheduled
Dispatch(provs, q, t, r, messages) ==
    LET recv(i) == receive_subtask(provs[messages[i][1]], t, messages[i][2], r,
                                   messages[i][3])
        at(p) == CHOOSE i \in 1..Len(messages) : messages[i][1] = p
    IN  [providers |-> [p \in DOMAIN provs |->
                          IF \E i \in 1..Len(messages) : messages[i][1] = p
                          THEN recv(at(p)).provider ELSE provs[p]],
         events |-> q (+) SetToBag({EventWrapper(t + recv(i).sched[1], recv(i).sched[2]) :
                                       i \in 1..Len(messages)})]

\* World::handle_advertise of a popped TaskAdvertisement
HandleAdvertise ==
    /\ pc = "running"
    /\ \E o \in pop(events, now) :
          /\ o.wrapper.time # -1
          /\ ~(until < o.now)
          /\ o.wrapper.event.tag = "TaskAdvertisement"
          /\ LET r == o.wrapper.event.requestor_id
                 collected == UNION {{<<p, bid>> : bid \in send_offer(providers[p])} :
                                     p \in DOMAIN providers}
                 offers == {bids \in [1..Cardinality(collected) -> collected] :
                               \A i, j \in DOMAIN bids : i # j => bids[i] # bids[j]}
             IN  \E sel \in {select_offers(requestors[r], bids) : bids \in offers} :
                   LET dis == Dispatch(providers, o.events, o.now, r, sel.messages)
                   IN  /\ now' = o.now
                       /\ lastEvent' = o.wrapper
                       /\ lastBids' = collected
                       /\ lastMessages' = sel.messages
                       /\ IF sel.panic
                          THEN /\ pc' = "panic"
                               /\ events' = o.events
                               /\ UNCHANGED <<requestors, providers, noBid>>
                          ELSE /\ pc' = pc
                               /\ requestors' = [requestors EXCEPT ![r] = sel.requestor]
                               /\ providers' = dis.providers
                               /\ events' = dis.events
                               /\ noBid' = [noBid EXCEPT ![r] =
                                    IF sel.messages = <<>> /\ is_pending(sel.requestor.task)
                                    THEN IF @ = 1 THEN 2 ELSE 1
                                    ELSE 0]
    /\ popCount' = popCount + 1
    /\ UNCHANGED <<paid, lastVerify, lastCleared, pulledOver, crossed, engineLog, detVars,
                   dmVars, unitVars>>

\* what a verify_subtask call is observed to do
Verified(req, after, subtask, provider_id, reported_usage, status) ==
    [requestor_id |-> req.id, subtask |-> subtask.id, provider_id |-> provider_id,
     before |-> IF subtask.id \in DOMAIN req.verification_map
                THEN req.verification_map[subtask.id] ELSE <<>>,
     some |-> reported_usage # -1, status |-> status,
     removed |-> subtask.id \notin DOMAIN after.verification_map]

\* the providers whose rating the call took from below 2.0 to 2.0 or above
Crossing(req, after) ==
    {p \in DOMAIN req.ratings :
        /\ FracLt(req.ratings[p], FracInt(MAX_RATING))
        /\ FracGe(after.ratings[p], FracInt(MAX_RATING))}

\* a handle_compute that asks for the usage before finish_computing
HandleCompute_report_first ==
    /\ pc = "running"
    /\ \E o \in pop(events, now) :
          /\ o.wrapper.time # -1
          /\ ~(until < o.now)
          /\ o.wrapper.event.tag = "SubTaskComputed"
          /\ LET e == o.wrapper.event
                 r == e.requestor_id
                 p == e.provider_id
                 finished == finish_computing(providers[p], o.now)
             IN  \E reported_usage \in report_usage(providers[p], e.subtask, e.bid) :
                   LET v == verify_subtask(requestors[r], e.subtask, p, reported_usage)
                       pay == send_payment(v.requestor, e.subtask, e.bid, reported_usage)
                       received == receive_payment(finished, pay.payment)
                       c == complete_task(pay.requestor)
                       reqs == [requestors EXCEPT ![r] = c.requestor]
                   IN  \E samples \in Samples(reqs) :
                       LET sa == schedule_advertise(reqs, o.events, o.now, samples)
                       IN
                       /\ now' = o.now
                       /\ lastEvent' = o.wrapper
                       /\ IF v.panic \/ c.panic
                          THEN /\ pc' = "panic"
                               /\ events' = o.events
                               /\ UNCHANGED <<requestors, providers, paid, lastVerify,
                                              lastCleared, pulledOver, crossed>>
                          ELSE /\ pc' = pc
                               /\ requestors' = sa.requestors
                               /\ providers' = [providers EXCEPT ![p] = received]
                               /\ paid' = [k \in DOMAIN paid \cup {<<r, e.subtask.id>>} |->
                                             LET was == IF k \in DOMAIN paid THEN paid[k]
                                                        ELSE [n |-> 0, sum |-> 0]
                                             IN  IF k = <<r, e.subtask.id>>
                                                 THEN [n |-> was.n + 1,
                                                       sum |-> was.sum + pay.payment]
                                                 ELSE was]
                               /\ events' = sa.events
                               /\ lastVerify' = Verified(requestors[r], v.requestor,
                                                   e.subtask, p, reported_usage, v.status)
                               /\ lastCleared' = IF c.cleared
                                    THEN [lastCleared EXCEPT ![r] = Cleared(pay.requestor)]
                                    ELSE lastCleared
                               /\ pulledOver' = [x \in Requestors |->
                                                   pulledOver[x] \/ x \in sa.pulledOver]
                               /\ crossed' = [crossed EXCEPT ![r] =
                                                @ \cup Crossing(requestors[r], v.requestor)]
    /\ popCount' = popCount + 1
    /\ UNCHANGED <<lastBids, lastMessages, noBid, engineLog, detVars, dmVars, unitVars>>
\* World::handle_compute of a popped SubTaskComputed
HandleCompute ==
    /\ pc = "running"
    /\ \E o \in pop(events, now) :
          /\ o.wrapper.time # -1
          /\ ~(until < o.now)
          /\ o.wrapper.event.tag = "SubTaskComputed"
          /\ LET e == o.wrapper.event
                 r == e.requestor_id
                 p == e.provider_id
                 finished == finish_computing(providers[p], o.now)
             IN  \E reported_usage \in report_usage(finished, e.subtask, e.bid) :
                   LET v == verify_subtask(requestors[r], e.subtask, p, reported_usage)
                       pay == send_payment(v.requestor, e.subtask, e.bid, reported_usage)
                       received == receive_payment(finished, pay.payment)
                       c == complete_task(pay.requestor)
                       reqs == [requestors EXCEPT ![r] = c.requestor]
                   IN  \E samples \in Samples(reqs) :
                       LET sa == schedule_advertise(reqs, o.events, o.now, samples)
                       IN
                       /\ now' = o.now
                       /\ lastEvent' = o.wrapper
                       /\ IF v.panic \/ c.panic
                          THEN /\ pc' = "panic"
                               /\ events' = o.events
                               /\ UNCHANGED <<requestors, providers, paid, lastVerify,
                                              lastCleared, pulledOver, crossed>>
                          ELSE /\ pc' = pc
                               /\ requestors' = sa.requestors
                               /\ providers' = [providers EXCEPT ![p] = received]
                               /\ paid' = [k \in DOMAIN paid \cup {<<r, e.subtask.id>>} |->
                                             LET was == IF k \in DOMAIN paid THEN paid[k]
                                                        ELSE [n |-> 0, sum |-> 0]
                                             IN  IF k = <<r, e.subtask.id>>
                                                 THEN [n |-> was.n + 1,
                                                       sum |-> was.sum + pay.payment]
                                                 ELSE was]
                               /\ events' = sa.events
                               /\ lastVerify' = Verified(requestors[r], v.requestor,
                                                   e.subtask, p, reported_usage, v.status)
                               /\ lastCleared' = IF c.cleared
                                    THEN [lastCleared EXCEPT ![r] = Cleared(pay.requestor)]
                                    ELSE lastCleared
                               /\ pulledOver' = [x \in Requestors |->
                                                   pulledOver[x] \/ x \in sa.pulledOver]
                               /\ crossed' = [crossed EXCEPT ![r] =
                                                @ \cup Crossing(requestors[r], v.requestor)]
    /\ popCount' = popCount + 1
    /\ UNCHANGED <<lastBids, lastMessages, noBid, engineLog, detVars, dmVars, unitVars>>

\* World::handle_budget_exceeded of a popped SubTaskBudgetExceeded
HandleBudgetExceeded ==
    /\ pc = "running"
    /\ \E o \in pop(events, now) :
          /\ o.wrapper.time # -1
          /\ ~(until < o.now)
          /\ o.wrapper.event.tag = "SubTaskBudgetExceeded"
          /\ LET e == o.wrapper.event
                 r == e.requestor_id
                 p == e.provider_id
                 cancelled == cancel_computing(providers[p], o.now)
                 v == verify_subtask(requestors[r], e.subtask, p, -1)
                 reqs == [requestors EXCEPT ![r] = v.requestor]
             IN  \E samples \in Samples(reqs) :
                   LET sa == schedule_advertise(reqs, o.events, o.now, samples)
                   IN  /\ now' = o.now
                       /\ lastEvent' = o.wrapper
                       /\ IF v.panic
                          THEN /\ pc' = "panic"
                               /\ events' = o.events
                               /\ UNCHANGED <<requestors, providers, lastVerify,
                                              pulledOver, crossed>>
                          ELSE /\ pc' = pc
                               /\ requestors' = sa.requestors
                               /\ providers' = [providers EXCEPT ![p] = cancelled]
                               /\ events' = sa.events
                               /\ lastVerify' = Verified(requestors[r], v.requestor,
                                                   e.subtask, p, -1, v.status)
                               /\ pulledOver' = [x \in Requestors |->
                                                   pulledOver[x] \/ x \in sa.pulledOver]
                               /\ crossed' = [crossed EXCEPT ![r] =
                                                @ \cup Crossing(requestors[r], v.requestor)]
    /\ popCount' = popCount + 1
    /\ UNCHANGED <<lastBids, paid, lastMessages, lastCleared, noBid, engineLog, detVars,
                   dmVars, unitVars>>

Next ==
    \/ Started
    \/ HandleAdvertise
    \/ HandleCompute
    \/ HandleBudgetExceeded
    \/ Deadline
    \/ Drained

Spec == WorldInit /\ [][Next]_vars

\* the replications of a lone provider and of the late population
SpecLate == LateInit /\ [][Next]_vars

\* an iteration of the loop of World::run (or its start): every step of Next is
\* one, and one is possible exactly when a step of Next is
Loop ==
    \/ pc = "init" /\ pc' = "running" /\ popCount' = popCount
    \/ pc = "running" /\ pc' \in {"running", "stopped", "panic"}
                      /\ popCount' = popCount + 1

\* World::run keeps iterating until the queue is empty or the deadline is passed
FairSpec == Spec /\ WF_<<pc, popCount>>(Loop)

-----------------------------------------------------------------------------
(* Two runs of one configuration with one seed (gd-cli main.rs, world.rs). The
   seeded rng gives both runs the same stream of draws; the HashMaps of World
   hash with RandomState, so each run has iteration orders of its own. *)

Runs == {1, 2}

\* the Exp draws of the seeded rng, in the order they are drawn
ExpStream == <<30, 45>>

NoRun == [shuffle |-> <<>>, requestors |-> <<>>, providers |-> <<>>]
NoRunMessages == [adverts |-> <<>>, handled |-> 0, messages |-> <<>>]

\* slice::shuffle with the seeded rng: the draws fix a permutation of the places
Shuffled(perm, ids) == [k \in DOMAIN ids |-> ids[perm[k]]]

\* World::started of a run: schedule_advertise calls advertise in the shuffled
\* order of requestors.keys(), the k-th call draws the k-th Exp sample
DetAdverts(run) ==
    LET ids == Shuffled(run.shuffle, run.requestors)
    IN  [r \in Requestors |-> ExpStream[CHOOSE k \in DOMAIN ids : ids[k] = r]]

\* requestor r once World::started has run: benchmarks received, task pulled
DetRequestor(r, sample) ==
    advertise(receive_benchmarks(requestors[r], providers), sample).requestor

\* the row Requestor::into_stats writes
RequestorStats(req) ==
    [run_id |-> 0, max_price |-> req.max_price, budget_factor |-> req.budget_factor,
     num_tasks_advertised |-> req.num_tasks_advertised]

DetInit ==
    /\ now = 0
    /\ events = EmptyBag
    /\ pc = "runs"
    /\ requestors = [r \in Requestors |-> Requestor_with_id(r, TRUE)]
    /\ providers = [p \in Providers |-> ProviderCommon_new(p)]
    /\ lastEvent = NoWorldEvent
    /\ lastBids = {}
    /\ paid = <<>>
    /\ NoUnit
    /\ lastMessages = <<>>
    /\ lastVerify = NoVerify
    /\ lastCleared = [r \in Requestors |-> NoneCleared]
    /\ pulledOver = [r \in Requestors |-> FALSE]
    /\ crossed = [r \in Requestors |-> {}]
    /\ noBid = [r \in Requestors |-> 0]
    /\ popped = NoEvent
    /\ popCount = 0
    /\ lastPopTime = -1
    /\ schedLog = <<>>
    /\ \E perm \in Orders(1..Cardinality(Requestors)) :
          detOrder = [i \in Runs |-> [NoRun EXCEPT !.shuffle = perm]]
    /\ detMessages = [i \in Runs |-> NoRunMessages]
    /\ detStats = [i \in Runs |-> <<>>]
    /\ dm = Idle0
    /\ dmTask = Idle0
    /\ dmFlight = Idle0
    /\ dmCall = Idle0

\* World::new, append_requestors, append_providers: the maps of run i are built
DetNew(i) ==
    /\ detOrder[i].providers = <<>>
    /\ \E ro \in Orders(Requestors), po \in Orders(Providers) :
          detOrder' = [detOrder EXCEPT ![i].requestors = ro, ![i].providers = po]
    /\ UNCHANGED <<now, events, pc, requestors, providers, worldObs, engineObs, dmVars, unitVars,
                   detMessages, detStats>>

\* World::started of run i
DetStarted(i) ==
    /\ detOrder[i].providers # <<>>
    /\ detMessages[i].adverts = <<>>
    /\ detMessages' = [detMessages EXCEPT ![i].adverts = DetAdverts(detOrder[i])]
    /\ UNCHANGED <<now, events, pc, requestors, providers, worldObs, engineObs, dmVars, unitVars,
                   detOrder, detStats>>

\* World::handle_advertise of the first event run i pops: the bids come in the
\* iteration order of the providers map
DetHandleAdvertise(i) ==
    /\ detMessages[i].adverts # <<>>
    /\ detMessages[i].handled = 0
    /\ LET adverts == detMessages[i].adverts
           r == CHOOSE x \in Requestors : \A y \in Requestors : adverts[x] <= adverts[y]
           order == detOrder[i].providers
           bids == [k \in DOMAIN order |-> <<order[k], price(providers[order[k]])>>]
           sel == select_offers(DetRequestor(r, adverts[r]), bids)
       IN  detMessages' = [detMessages EXCEPT ![i].handled = r,
                                                ![i].messages = sel.messages]
    /\ UNCHANGED <<now, events, pc, requestors, providers, worldObs, engineObs, dmVars, unitVars,
                   detOrder, detStats>>

\* World::into_stats of run i: the requestors map is drained in its iteration order
DetIntoStats(i) ==
    /\ detMessages[i].handled # 0
    /\ detStats[i] = <<>>
    /\ LET order == detOrder[i].requestors
       IN  detStats' = [detStats EXCEPT ![i] =
              [k \in DOMAIN order |->
                  RequestorStats(DetRequestor(order[k], detMessages[i].adverts[order[k]]))]]
    /\ UNCHANGED <<now, events, pc, requestors, providers, worldObs, engineObs, dmVars, unitVars,
                   detOrder, detMessages>>

DetNext ==
    \E i \in Runs :
       \/ DetNew(i)
       \/ DetStarted(i)
       \/ DetHandleAdvertise(i)
       \/ DetIntoStats(i)

SpecDet == DetInit /\ [][DetNext]_vars

-----------------------------------------------------------------------------
(* Providers on their own: subtasks at any of a few bids sent to idle        *)
(* providers, and the events receive_subtask schedules popped and handled.   *)

\* a provider of usage factor 1 and one of usage factor 2
PvProviders == {1, 4}
\* the bids 2.0 and 4.0, in the units of price
PvBids == {2 * MarginUnit, 4 * MarginUnit}
\* the subtasks sent: nominal usage 12 with budget 48.0, 20 with budget 60.0
PvSubTasks ==
    {[id |-> 1, nominal_usage |-> 12, budget |-> 48 * MarginUnit],
     [id |-> 2, nominal_usage |-> 20, budget |-> 60 * MarginUnit]}

PvInit ==
    /\ now = 0
    /\ events = EmptyBag
    /\ pc = "provider"
    /\ requestors = Idle0
    /\ providers = [p \in PvProviders |-> ProviderCommon_new(p)]
    /\ lastEvent = NoWorldEvent
    /\ lastBids = {}
    /\ paid = <<>>
    /\ NoUnit
    /\ lastMessages = <<>>
    /\ lastVerify = NoVerify
    /\ lastCleared = Idle0
    /\ pulledOver = Idle0
    /\ crossed = Idle0
    /\ noBid = Idle0
    /\ popped = NoEvent
    /\ popCount = 0
    /\ lastPopTime = -1
    /\ schedLog = <<>>
    /\ detOrder = <<>>
    /\ detMessages = <<>>
    /\ detStats = <<>>
    /\ dm = Idle0
    /\ dmTask = Idle0
    /\ dmFlight = Idle0
    /\ dmCall = Idle0

\* the delivery of a message of World::handle_advertise to a provider that made
\* an offer: receive_subtask of a subtask of requestor 1
PvReceive ==
    /\ pc = "provider"
    /\ \E p \in DOMAIN providers, subtask \in PvSubTasks, bid \in PvBids :
          /\ send_offer(providers[p]) # {}
          /\ providers[p].num_subtasks_assigned < MaxAssigned
          /\ LET recv == receive_subtask(providers[p], now, subtask, 1, bid)
             IN  /\ providers' = [providers EXCEPT ![p] = recv.provider]
                 /\ events' = schedule(events, now, recv.sched[1], recv.sched[2])
                 /\ lastMessages' = <<<<p, subtask, bid>>>>
    /\ UNCHANGED <<now, pc, requestors, lastEvent, lastBids, paid, lastVerify, lastCleared,
                   pulledOver, crossed, noBid, engineObs, detVars, dmVars, unitVars>>

\* the event of a provider is popped: finish_computing of World::handle_compute
\* or cancel_computing of World::handle_budget_exceeded
PvHandle ==
    /\ pc = "provider"
    /\ \E o \in pop(events, now) :
          /\ o.wrapper.time # -1
          /\ LET e == o.wrapper.event
                 p == e.provider_id
             IN  providers' = [providers EXCEPT ![p] =
                                  IF e.tag = "SubTaskComputed"
                                  THEN finish_computing(@, o.now)
                                  ELSE cancel_computing(@, o.now)]
          /\ now' = o.now
          /\ events' = o.events
          /\ lastEvent' = o.wrapper
    /\ lastMessages' = <<>>
    /\ UNCHANGED <<pc, requestors, lastBids, paid, lastVerify, lastCleared,
                   pulledOver, crossed, noBid, engineObs, detVars, dmVars, unitVars>>

PvNext == PvReceive \/ PvHandle

SpecProvider == PvInit /\ [][PvNext]_vars

-----------------------------------------------------------------------------
(* gd-world: requestor/defence.rs and the mechanisms under requestor/defence/,
   driven call by call as the tests of these modules and the requestor drive
   them: assign_subtasks with the offers of the idle providers, verify_subtask
   with the result of a message in flight, complete_task when the task has
   nothing pending and nothing in flight.

   Redundancy and LGRola keep ratings and usages as exact values. CTasks takes
   square roots and geometric means of them: its ratings, usages and bids are
   powers of two, each kept as its base-2 logarithm, a signed fraction <<n, d>>,
   so that a product is a sum, a square root a halving and a geometric mean an
   arithmetic mean, all exact. *)

\* the providers that bid to the mechanism
DmProviders == 1..5
\* the iteration orders of the providers map the model explores
DmOrders == {<<1, 2, 3, 4, 5>>, <<5, 4, 3, 2, 1>>, <<3, 1, 5, 2, 4>>}

\* the base-2 logarithm of a power of two: CTasks keeps ratings, bids and usages
\* as the fractions that are their logarithms, which may be negative
Log2(n) == CHOOSE k \in 0..16 : 2^k = n


\* BanDuration: Until(n) is the count n, Indefinitely is -1
Indefinitely == 0 - 1

\* BanDuration::is_expired
is_expired(ban) == ban # Indefinitely /\ ban = 0

\* BanDuration::decrement
decrement(ban) == IF ban # Indefinitely THEN ban - 1 ELSE ban

\* HashMap::insert on a map kept as a function
MapInsert(map, key, value) ==
    [k \in DOMAIN map \cup {key} |-> IF k = key THEN value ELSE map[k]]

NoMap == [k \in {} |-> 0]

\* DefenceMechanismType::into_dm: CTasks::new, Redundancy::new, LGRola::new over
\* DefenceMechanismCommon::new
into_dm(kind) ==
    [kind |-> kind, ratings |-> NoMap, blacklisted_set |-> NoMap,
     verification_map |-> NoMap, task_usages |-> NoMap, collisions |-> NoMap]

\* DefenceMechanismCommon::insert_provider_rating
insert_provider_rating(d, provider_id, reported_usage) ==
    [d EXCEPT !.ratings = MapInsert(@, provider_id, reported_usage)]

\* an update_provider_rating that blacklists only above MAX_RATING
update_provider_rating_above(d, provider_id, new_rating) ==
    [d EXCEPT !.ratings[provider_id] = new_rating,
              !.blacklisted_set =
                  IF FracLt(FracInt(IF d.kind = "CTasks" THEN Log2(MAX_RATING)
                                            ELSE MAX_RATING), new_rating)
                  THEN MapInsert(@, provider_id, Indefinitely) ELSE @]
\* DefenceMechanismCommon::update_provider_rating, with its test
\* *rating >= Self::MAX_RATING
update_provider_rating(d, provider_id, new_rating) ==
    [d EXCEPT !.ratings[provider_id] = new_rating,
              !.blacklisted_set =
                  IF FracGe(new_rating, FracInt(IF d.kind = "CTasks" THEN Log2(MAX_RATING)
                                                ELSE MAX_RATING))
                  THEN MapInsert(@, provider_id, Indefinitely) ELSE @]

\* the comparison of rank_offers: the effective price bid * rating of offer x is
\* less than that of offer y
DmPriceLt(d, x, y) ==
    LET effective_price(b) == IF d.kind = "CTasks"
                              THEN FracAdd(FracInt(b[2]), d.ratings[b[1]])
                              ELSE EffectivePrice(d.ratings, b)
    IN  FracLt(effective_price(x), effective_price(y))

\* DefenceMechanismCommon::filter_offers
Common_filter_offers(d, bids) ==
    SelectSeq(bids, LAMBDA b : b[1] \notin DOMAIN d.blacklisted_set)

\* one step of the insertion sort of sort_unstable_by, as insert_tail
RECURSIVE Common_insert_tail(_, _, _)
Common_insert_tail(d, sorted, b) ==
    IF sorted # <<>> /\ DmPriceLt(d, b, sorted[Len(sorted)])
    THEN Append(Common_insert_tail(d, SubSeq(sorted, 1, Len(sorted) - 1), b),
                sorted[Len(sorted)])
    ELSE Append(sorted, b)

\* DefenceMechanismCommon::rank_offers
RECURSIVE Common_rank_offers(_, _)
Common_rank_offers(d, bids) ==
    IF bids = <<>> THEN <<>>
    ELSE Common_insert_tail(d, Common_rank_offers(d, SubSeq(bids, 1, Len(bids) - 1)),
                            bids[Len(bids)])

\* Option<f64> of a reported usage
NoUsage == [some |-> FALSE, usage |-> 0]
SomeUsage(usage) == [some |-> TRUE, usage |-> usage]

-----------------------------------------------------------------------------
(* requestor/defence/redundancy.rs *)

\* a loop over bids.chunks(REDUNDANCY_FACTOR): a last chunk of one offer is served
RECURSIVE Redundancy_assign_loop_chunks(_, _, _, _, _)
Redundancy_assign_loop_chunks(d, task, bids, i, messages) ==
    IF i > Len(bids) \/ ~is_pending(task)
    THEN [dm |-> d, task |-> task, messages |-> messages]
    ELSE LET subtask == PendingFront(task)
             last == Min(i + REDUNDANCY_FACTOR - 1, Len(bids))
         IN  Redundancy_assign_loop_chunks(
                [d EXCEPT !.verification_map = insert_key(@, subtask.id)],
                pop_pending(task), bids, i + REDUNDANCY_FACTOR,
                messages \o [j \in 1..(last - i + 1) |->
                                <<bids[i + j - 1][1], subtask, bids[i + j - 1][2]>>])
\* the loop of Redundancy::assign_subtasks over bids.chunks_exact(REDUNDANCY_FACTOR),
\* from the chunk that starts at bids[i]
RECURSIVE Redundancy_assign_loop(_, _, _, _, _)
Redundancy_assign_loop(d, task, bids, i, messages) ==
    IF i + REDUNDANCY_FACTOR - 1 > Len(bids) \/ ~is_pending(task)
    THEN [dm |-> d, task |-> task, messages |-> messages]
    ELSE LET subtask == PendingFront(task)
         IN  Redundancy_assign_loop(
                [d EXCEPT !.verification_map = insert_key(@, subtask.id)],
                pop_pending(task), bids, i + REDUNDANCY_FACTOR,
                messages \o [j \in 1..REDUNDANCY_FACTOR |->
                                <<bids[i + j - 1][1], subtask, bids[i + j - 1][2]>>])

\* Redundancy::assign_subtasks: the mechanism and the task after the call, and the
\* messages <<provider id, subtask, bid>>
Redundancy_assign_subtasks(d, task, bids) ==
    Redundancy_assign_loop(d, task, Common_rank_offers(d, Common_filter_offers(d, bids)),
                           1, <<>>)

\* an update_rating that also credits the other provider: its rating is divided
\* by d1 / d2
Redundancy_update_rating_both(d, p1, p2) ==
    LET f == FracDiv(p1.d, p2.d)
    IN  [update_provider_rating(d, p1.id, FracMul(d.ratings[p1.id], f))
            EXCEPT !.ratings[p2.id] = FracDiv(d.ratings[p2.id], f)]
\* an update_rating with the quotient upside down
Redundancy_update_rating_inverse(d, p1, p2) ==
    update_provider_rating(d, p1.id, FracDiv(FracMul(d.ratings[p1.id], p2.d), p1.d))
\* Redundancy::update_rating
Redundancy_update_rating(d, p1, p2) ==
    LET old_rating == d.ratings[p1.id]
        new_rating == FracDiv(FracMul(old_rating, p1.d), p2.d)
    IN  update_provider_rating(d, p1.id, new_rating)

\* Redundancy::verify_subtask: the mechanism after the call and the status
Redundancy_dm_verify_subtask(d, subtask, provider_id, reported_usage) ==
    LET ver_res == IF ~reported_usage.some THEN None
                   ELSE Some(provider_id,
                             FracDiv(FracInt(reported_usage.usage), d.ratings[provider_id]))
        ins == insert_verification(d.verification_map, subtask.id, ver_res)
        vers == ins.vers
        d1 == [d EXCEPT !.verification_map = ins.map]
    IN  [dm |-> IF ins.complete /\ Len(vers) = REDUNDANCY_FACTOR
                THEN IF FracLt(vers[2].d, vers[1].d)
                     THEN Redundancy_update_rating(d1, vers[1], vers[2])
                     ELSE Redundancy_update_rating(d1, vers[2], vers[1])
                ELSE d1,
         status |-> IF ~ins.complete THEN "Pending"
                    ELSE IF Len(vers) > 0 THEN "Done" ELSE "Cancelled"]

-----------------------------------------------------------------------------
(* requestor/defence/ctasks.rs *)

\* a loop that hands every bidder the same subtask, the front of pending
RECURSIVE assign_loop_same(_, _, _, _, _)
assign_loop_same(d, task, bids, i, messages) ==
    IF i > Len(bids) \/ ~is_pending(task)
    THEN [dm |-> d, task |-> IF messages = <<>> THEN task ELSE pop_pending(task),
          messages |-> messages]
    ELSE assign_loop_same(d, task, bids, i + 1,
                          Append(messages, <<bids[i][1], PendingFront(task), bids[i][2]>>))
\* the loop of CTasks::assign_subtasks and of LGRola::assign_subtasks over the
\* ranked bids, from bids[i]: one subtask popped for each bidder
RECURSIVE assign_loop(_, _, _, _, _)
assign_loop(d, task, bids, i, messages) ==
    IF i > Len(bids) \/ ~is_pending(task)
    THEN [dm |-> d, task |-> task, messages |-> messages]
    ELSE assign_loop(d, pop_pending(task), bids, i + 1,
                     Append(messages, <<bids[i][1], PendingFront(task), bids[i][2]>>))

\* CTasks::assign_subtasks
CTasks_assign_subtasks(d, task, bids) ==
    assign_loop(d, task, Common_rank_offers(d, Common_filter_offers(d, bids)), 1, <<>>)

\* CTasks::verify_subtask: a usage is pushed to the provider's list of the task
CTasks_verify_subtask(d, subtask, provider_id, reported_usage) ==
    IF ~reported_usage.some THEN [dm |-> d, status |-> "Cancelled"]
    ELSE [dm |-> [d EXCEPT !.task_usages =
                     MapInsert(@, provider_id,
                               Append(IF provider_id \in DOMAIN @ THEN @[provider_id]
                                      ELSE <<>>, reported_usage.usage))],
          status |-> "Done"]

\* the sum of base-2 logarithms
RECURSIVE LSum(_)
LSum(seq) == IF seq = <<>> THEN FracInt(0) ELSE FracAdd(seq[1], LSum(Tail(seq)))

\* the keys of a map in ascending order
RECURSIVE Keys(_)
Keys(S) == IF S = {} THEN <<>>
           ELSE LET k == CHOOSE x \in S : \A y \in S : x <= y IN <<k>> \o Keys(S \ {k})

\* Statistics::geometric_mean of powers of two: the mean of the logarithms
geometric_mean_log2(seq) == FracDiv(LSum(seq), FracInt(Len(seq)))

\* the loop of CTasks::complete_task over the providers ids[i..] of the task
RECURSIVE CTasks_update_loop(_, _, _, _, _, _)
CTasks_update_loop(d, ids, i, task_usages, mean_usage, mean_rating) ==
    IF i > Len(ids) THEN d
    ELSE LET id == ids[i]
             rating == d.ratings[id]
             rating_relative_to_mean == FracSub(rating, mean_rating)
             usage_relative_to_mean == FracSub(task_usages[id], mean_usage)
             adjustment_factor ==
                 FracDiv(FracSub(usage_relative_to_mean, rating_relative_to_mean),
                         FracInt(2))
             new_rating == FracAdd(rating, adjustment_factor)
         IN  CTasks_update_loop(update_provider_rating(d, id, new_rating), ids, i + 1,
                                task_usages, mean_usage, mean_rating)

\* a complete_task that keeps the usages of the task
CTasks_complete_task_keep(d) ==
    LET ids == Keys(DOMAIN d.task_usages)
        task_usages == [id \in DOMAIN d.task_usages |->
                           geometric_mean_log2(d.task_usages[id])]
        mean_usage == geometric_mean_log2([i \in DOMAIN ids |-> task_usages[ids[i]]])
        mean_rating == geometric_mean_log2([i \in DOMAIN ids |-> d.ratings[ids[i]]])
    IN  IF ids = <<>> THEN d
        ELSE CTasks_update_loop(d, ids, 1, task_usages, mean_usage, mean_rating)
\* CTasks::complete_task
CTasks_complete_task(d) ==
    LET ids == Keys(DOMAIN d.task_usages)
        task_usages == [id \in DOMAIN d.task_usages |->
                           geometric_mean_log2(d.task_usages[id])]
        mean_usage == geometric_mean_log2([i \in DOMAIN ids |-> task_usages[ids[i]]])
        mean_rating == geometric_mean_log2([i \in DOMAIN ids |-> d.ratings[ids[i]]])
    IN  IF ids = <<>> THEN d
        ELSE [CTasks_update_loop(d, ids, 1, task_usages, mean_usage, mean_rating)
                 EXCEPT !.task_usages = NoMap]

-----------------------------------------------------------------------------
(* requestor/defence/lgrola.rs *)

\* LGRola::assign_subtasks
LGRola_assign_subtasks(d, task, bids) ==
    assign_loop(d, task, Common_rank_offers(d, Common_filter_offers(d, bids)), 1, <<>>)

\* LGRola::verify_subtask
LGRola_verify_subtask(d, subtask, provider_id, reported_usage) ==
    IF ~reported_usage.some THEN [dm |-> d, status |-> "Cancelled"]
    ELSE [dm |-> [d EXCEPT !.task_usages =
                     MapInsert(@, provider_id,
                               Append(IF provider_id \in DOMAIN @ THEN @[provider_id]
                                      ELSE <<>>, reported_usage.usage))],
          status |-> "Done"]

RECURSIVE Product(_)
Product(seq) == IF seq = <<>> THEN 1 ELSE seq[1] * Product(Tail(seq))

\* the usages of a provider in one task have a whole geometric mean
HasGeometricMean(seq) ==
    \E r \in 0..Product(seq) :
        /\ \E i \in DOMAIN seq : seq[i] <= r
        /\ \E i \in DOMAIN seq : r <= seq[i]
        /\ r^Len(seq) = Product(seq)

\* Statistics::geometric_mean of usages that have a whole one
geometric_mean(seq) ==
    LET lo == CHOOSE x \in {seq[i] : i \in DOMAIN seq} : \A i \in DOMAIN seq : x <= seq[i]
        hi == CHOOSE x \in {seq[i] : i \in DOMAIN seq} : \A i \in DOMAIN seq : seq[i] <= x
    IN  CHOOSE r \in lo..hi : r^Len(seq) = Product(seq)

\* the values of seq in ascending order
RECURSIVE SortAsc(_)
SortAsc(seq) ==
    IF seq = <<>> THEN <<>>
    ELSE LET i == CHOOSE k \in DOMAIN seq : \A j \in DOMAIN seq : seq[k] <= seq[j]
         IN  <<seq[i]>> \o SortAsc([j \in 1..(Len(seq) - 1) |->
                                       IF j < i THEN seq[j] ELSE seq[j + 1]])

\* OrderStatistics::quantile of statrs on sorted data, tau = <<a, b>> for a / b:
\* h = (n + 1/3) * tau + 1/3, and the value interpolated between the order
\* statistics floor(h) and floor(h) + 1
quantile(xs, tau) ==
    LET n == Len(xs)
        h == Frac((3 * n + 1) * tau[1] + tau[2], 3 * tau[2])
        hf == h[1] \div h[2]
    IN  IF hf <= 0 THEN FracInt(xs[1])
        ELSE IF hf >= n THEN FracInt(xs[n])
        ELSE FracAdd(FracInt(xs[hf]),
                     FracMul(FracSub(h, FracInt(hf)), FracInt(xs[hf + 1] - xs[hf])))

upper_quartile(xs) == quantile(xs, <<3, 4>>)
\* upper_quartile - lower_quartile, the lower quartile being quantile(0.25)
interquartile_range(xs) == FracSub(upper_quartile(xs), quantile(xs, <<1, 4>>))

\* ceil(exp(collisions)) for the collision counts the model reaches
ExpCeil == <<3, 8, 21, 55, 149, 404>>

\* a loop that bans a provider whose usage is at the threshold as well
RECURSIVE LGRola_ban_loop_at(_, _, _, _, _)
LGRola_ban_loop_at(d, ids, i, usages, threshold) ==
    IF i > Len(ids) THEN d
    ELSE LET id == ids[i]
             old == IF id \in DOMAIN d.collisions THEN d.collisions[id] ELSE 0
         IN  IF FracGe(FracInt(usages[id]), threshold)
             THEN LGRola_ban_loop_at(
                     [d EXCEPT !.collisions = MapInsert(@, id, old + 1),
                               !.blacklisted_set = MapInsert(@, id, ExpCeil[old + 1])],
                     ids, i + 1, usages, threshold)
             ELSE LGRola_ban_loop_at(
                     [d EXCEPT !.collisions = MapInsert(@, id, IF old > 0 THEN old - 1 ELSE 0)],
                     ids, i + 1, usages, threshold)
\* the loop of LGRola::complete_task over the providers ids[i..] of the task
RECURSIVE LGRola_ban_loop(_, _, _, _, _)
LGRola_ban_loop(d, ids, i, usages, threshold) ==
    IF i > Len(ids) THEN d
    ELSE LET id == ids[i]
             old == IF id \in DOMAIN d.collisions THEN d.collisions[id] ELSE 0
         IN  IF FracLt(threshold, FracInt(usages[id]))
             THEN LGRola_ban_loop(
                     [d EXCEPT !.collisions = MapInsert(@, id, old + 1),
                               !.blacklisted_set = MapInsert(@, id, ExpCeil[old + 1])],
                     ids, i + 1, usages, threshold)
             ELSE LGRola_ban_loop(
                     [d EXCEPT !.collisions = MapInsert(@, id, IF old > 0 THEN old - 1 ELSE 0)],
                     ids, i + 1, usages, threshold)

\* the head of LGRola::complete_task: the expired bans are removed, the others
\* decremented
LGRola_decay(blacklisted_set) ==
    LET ids_to_remove == {id \in DOMAIN blacklisted_set : is_expired(blacklisted_set[id])}
    IN  [id \in DOMAIN blacklisted_set \ ids_to_remove |-> decrement(blacklisted_set[id])]

\* the threshold 1.5 * iqr + q3 of LGRola::complete_task over the usages of the task
LGRola_threshold(usages, ids) ==
    LET only_usages == SortAsc([i \in DOMAIN ids |-> usages[ids[i]]])
    IN  FracAdd(FracMul(<<3, 2>>, interquartile_range(only_usages)),
                upper_quartile(only_usages))

\* a complete_task that also rates the providers of the task by their usage
LGRola_complete_task_rated(d) ==
    LET d1 == [d EXCEPT !.blacklisted_set = LGRola_decay(@)]
        ids == Keys(DOMAIN d.task_usages)
        task_usages == [id \in DOMAIN d.task_usages |-> geometric_mean(d.task_usages[id])]
    IN  IF ids = <<>> THEN d1
        ELSE [LGRola_ban_loop(d1, ids, 1, task_usages, LGRola_threshold(task_usages, ids))
                 EXCEPT !.task_usages = NoMap,
                        !.ratings = [p \in DOMAIN @ |->
                                        IF p \in DOMAIN task_usages
                                        THEN FracInt(task_usages[p]) ELSE @[p]]]
\* LGRola::complete_task
LGRola_complete_task(d) ==
    LET d1 == [d EXCEPT !.blacklisted_set = LGRola_decay(@)]
        ids == Keys(DOMAIN d.task_usages)
        task_usages == [id \in DOMAIN d.task_usages |-> geometric_mean(d.task_usages[id])]
    IN  IF ids = <<>> THEN d1
        ELSE [LGRola_ban_loop(d1, ids, 1, task_usages, LGRola_threshold(task_usages, ids))
                 EXCEPT !.task_usages = NoMap]

-----------------------------------------------------------------------------
(* The mechanism with its task, its bidders and their reports *)

DmKinds == {"Redundancy", "CTasks", "LGRola"}

\* the results of the messages in flight arrive in the order of dispatch, but
\* for the first DmWindow of them, which arrive in any order
DmWindow == 2
\* the number of results of a task that may be a budget exceeded
MaxCancelled == 1

\* the usage factor a provider sends as its benchmark, the price it bids and
\* the usages it may report for a subtask (powers of two where CTasks is to
\* take roots of them); provider 1 may run out of budget, and under
\* Redundancy provider 2 as well
DmUsageFactor(p) == IF p = 4 THEN 2 ELSE 1
DmBid(p) == <<2, 1, 2, 1, 4>>[p]
DmReports(kind, p) ==
    LET honest == CASE kind = "Redundancy" -> 20 * DmUsageFactor(p)
                    [] kind = "CTasks" -> 16 * DmUsageFactor(p)
                    [] OTHER -> 2 * DmUsageFactor(p)
        inflated == CASE kind = "Redundancy" -> IF p = 3 THEN {30} ELSE IF p = 5 THEN {40} ELSE {}
                      [] kind = "CTasks" -> IF p \in {3, 5} THEN {256} ELSE {}
                      [] OTHER -> IF p = 5 THEN {8} ELSE {}
    IN  {SomeUsage(u) : u \in {honest} \cup inflated}
            \cup (IF p = 1 \/ (p = 2 /\ kind = "Redundancy") THEN {NoUsage} ELSE {})

\* subtask_count of the tasks the mechanism is given, one after the other
DmTaskSizes(kind) ==
    CASE kind = "Redundancy" -> <<3, 2>>
      [] kind = "CTasks" -> <<2, 5>>
      [] OTHER -> <<5, 1, 1, 1, 5, 5>>

\* the k-th task, as TaskSpec::as_task builds it
DmTask(kind, k) == as_task_loop(Task_new(100 + 10 * k), 1, k, DmTaskSizes(kind)[k])
\* the number of the task
DmTaskNo(task) == (task.id - 100) \div 10

\* a rating, a bid or a usage as the mechanism of this kind keeps it
DmBidValue(kind, n) == IF kind = "CTasks" THEN Log2(n) ELSE n
DmUsageValue(kind, u) ==
    IF ~u.some THEN NoUsage
    ELSE IF kind = "CTasks" THEN SomeUsage(FracInt(Log2(u.usage))) ELSE u

\* the ratings seeded by the benchmarks, insert_provider_rating for every provider
RECURSIVE DmSeed(_, _)
DmSeed(d, n) ==
    IF n = 0 THEN d
    ELSE insert_provider_rating(DmSeed(d, n - 1), n, FracInt(DmBidValue(d.kind, DmUsageFactor(n))))

NoCall ==
    [op |-> "new", bids |-> <<>>, messages |-> <<>>, subtask |-> NoSubTask,
     provider_id |-> 0, reported_usage |-> NoUsage, status |-> "None", vers |-> <<>>]

DmInit ==
    /\ now = 0
    /\ events = EmptyBag
    /\ pc = "defence"
    /\ requestors = Idle0
    /\ providers = Idle0
    /\ lastEvent = NoEvent
    /\ lastBids = {}
    /\ paid = <<>>
    /\ NoUnit
    /\ lastMessages = <<>>
    /\ lastVerify = NoVerify
    /\ lastCleared = Idle0
    /\ pulledOver = Idle0
    /\ crossed = Idle0
    /\ noBid = Idle0
    /\ popped = NoEvent
    /\ popCount = 0
    /\ lastPopTime = -1
    /\ schedLog = <<>>
    /\ detOrder = <<>>
    /\ detMessages = <<>>
    /\ detStats = <<>>
    /\ \E kind \in DmKinds :
          /\ dm = DmSeed(into_dm(kind), Cardinality(DmProviders))
          /\ dmTask = DmTask(kind, 1)
    /\ dmFlight = <<>>
    /\ dmCall = NoCall

\* an advertisement of the task: the providers with no message in flight are
\* Idle and bid, in the order of the providers map, and the messages of
\* assign_subtasks of the mechanism go out
DmAssign ==
    /\ pc = "defence"
    /\ is_pending(dmTask)
    /\ \E order \in DmOrders :
          LET bids == SelectSeq([i \in DOMAIN order |->
                                    <<order[i], DmBidValue(dm.kind, DmBid(order[i]))>>],
                                LAMBDA b : \A i \in DOMAIN dmFlight : dmFlight[i][1] # b[1])
              a == CASE dm.kind = "Redundancy" -> Redundancy_assign_subtasks(dm, dmTask, bids)
                     [] dm.kind = "CTasks" -> CTasks_assign_subtasks(dm, dmTask, bids)
                     [] OTHER -> LGRola_assign_subtasks(dm, dmTask, bids)
          IN  /\ dm' = a.dm
              /\ dmTask' = a.task
              /\ dmFlight' = dmFlight \o a.messages
              /\ dmCall' = [NoCall EXCEPT !.op = "assign_subtasks", !.bids = bids,
                                          !.messages = a.messages]
    /\ UNCHANGED <<now, events, pc, requestors, providers, worldObs, engineObs, detVars, unitVars>>

\* the result of a message in flight arrives: verify_subtask, and the subtask
\* goes to done or back to pending as Requestor::verify_subtask has it
DmVerify ==
    /\ pc = "defence"
    /\ \E i \in 1..Min(Len(dmFlight), DmWindow) :
       \E reported \in DmReports(dm.kind, dmFlight[i][1]) :
          LET provider_id == dmFlight[i][1]
              subtask == dmFlight[i][2]
              usage == DmUsageValue(dm.kind, reported)
              v == CASE dm.kind = "Redundancy" ->
                          Redundancy_dm_verify_subtask(dm, subtask, provider_id, usage)
                     [] dm.kind = "CTasks" ->
                          CTasks_verify_subtask(dm, subtask, provider_id, usage)
                     [] OTHER -> LGRola_verify_subtask(dm, subtask, provider_id, usage)
          IN  /\ ~reported.some =>
                    dmTask.size < DmTaskSizes(dm.kind)[DmTaskNo(dmTask)] + MaxCancelled
              /\ dm.kind = "LGRola" /\ reported.some =>
                    HasGeometricMean(Append(IF provider_id \in DOMAIN dm.task_usages
                                            THEN dm.task_usages[provider_id] ELSE <<>>,
                                            reported.usage))
              /\ dm' = v.dm
              /\ dmTask' = CASE v.status = "Done" -> push_done(dmTask, subtask)
                             [] v.status = "Cancelled" -> push_pending(dmTask, subtask)
                             [] OTHER -> dmTask
              /\ dmFlight' = [j \in 1..(Len(dmFlight) - 1) |->
                                 IF j < i THEN dmFlight[j] ELSE dmFlight[j + 1]]
              /\ dmCall' = [NoCall EXCEPT
                               !.op = "verify_subtask", !.subtask = subtask,
                               !.provider_id = provider_id, !.reported_usage = reported,
                               !.status = v.status,
                               !.vers = IF dm.kind = "Redundancy" /\ v.status # "Pending"
                                        THEN SelectSeq(
                                               Append(dm.verification_map[subtask.id],
                                                      IF reported.some
                                                      THEN Some(provider_id,
                                                             FracDiv(FracInt(reported.usage),
                                                                     dm.ratings[provider_id]))
                                                      ELSE None),
                                               LAMBDA x : x.some)
                                        ELSE <<>>]
    /\ UNCHANGED <<now, events, pc, requestors, providers, worldObs, engineObs, detVars, unitVars>>

\* the task has nothing pending and nothing in flight: complete_task, and the
\* next task of the queue becomes the task
DmComplete ==
    /\ pc = "defence"
    /\ dmTask # NoTask
    /\ ~is_pending(dmTask)
    /\ dmFlight = <<>>
    /\ dm' = CASE dm.kind = "Redundancy" -> dm
                [] dm.kind = "CTasks" -> CTasks_complete_task(dm)
                [] OTHER -> LGRola_complete_task(dm)
    /\ dmTask' = IF DmTaskNo(dmTask) < Len(DmTaskSizes(dm.kind))
                 THEN DmTask(dm.kind, DmTaskNo(dmTask) + 1) ELSE NoTask
    /\ dmCall' = [NoCall EXCEPT !.op = "complete_task"]
    /\ UNCHANGED <<dmFlight, now, events, pc, requestors, providers, worldObs,
                   engineObs, detVars, unitVars>>

DmNext == DmAssign \/ DmVerify \/ DmComplete

SpecDefence == DmInit /\ [][DmNext]_vars

-----------------------------------------------------------------------------
(* Parts exercised on their own: the rest of the world is not in use *)

NoWorld ==
    /\ now = 0
    /\ events = EmptyBag
    /\ requestors = Idle0
    /\ providers = Idle0
    /\ lastEvent = NoWorldEvent
    /\ lastBids = {}
    /\ paid = <<>>
    /\ lastMessages = <<>>
    /\ lastVerify = NoVerify
    /\ lastCleared = Idle0
    /\ pulledOver = Idle0
    /\ crossed = Idle0
    /\ noBid = Idle0
    /\ popped = NoEvent
    /\ popCount = 0
    /\ lastPopTime = -1
    /\ schedLog = <<>>
    /\ detOrder = <<>>
    /\ detMessages = <<>>
    /\ detStats = <<>>
    /\ dm = Idle0
    /\ dmTask = Idle0
    /\ dmFlight = Idle0
    /\ dmCall = Idle0

-----------------------------------------------------------------------------
(* gd-world: id.rs. Replications run in parallel threads of one process and  *)
(* each calls Id::new; BASE_VALUE is the one counter they share.             *)

\* the replications running in parallel
IdThreads == {1, 2, 3}
\* the calls of Id::new each replication makes
MaxIds == 2

\* a load of the counter in place of the read-modify-write
fetch_add_load(v) == v
\* AtomicUsize::fetch_add(1, SeqCst): the counter after the call; the call
\* returns the counter before it. A usize wraps only after 2^64 calls.
fetch_add(v) == v + 1

IdInit ==
    /\ pc = "id"
    /\ NoWorld
    /\ BASE_VALUE = 0
    /\ idThreads = [t \in IdThreads |-> [at |-> "idle", value |-> 0, ids |-> <<>>]]
    /\ task_queue = Idle0
    /\ callLog = <<>>

\* Id::new, `let value = BASE_VALUE.fetch_add(1, Ordering::SeqCst)`: one atomic
\* step of a replication
IdFetchAdd ==
    /\ pc = "id"
    /\ \E t \in DOMAIN idThreads :
          /\ idThreads[t].at = "idle"
          /\ Len(idThreads[t].ids) < MaxIds
          /\ BASE_VALUE' = fetch_add(BASE_VALUE)
          /\ idThreads' = [idThreads EXCEPT ![t].at = "fetched", ![t].value = BASE_VALUE]
    /\ UNCHANGED <<now, events, pc, requestors, providers, worldObs, engineObs, detVars,
                   dmVars, task_queue, callLog>>

\* Id::new, `Id { value: value }`: the replication gets its id
IdReturn ==
    /\ pc = "id"
    /\ \E t \in DOMAIN idThreads :
          /\ idThreads[t].at = "fetched"
          /\ idThreads' = [idThreads EXCEPT ![t].at = "idle",
                                            ![t].ids = Append(@, idThreads[t].value)]
    /\ UNCHANGED <<now, events, pc, requestors, providers, worldObs, engineObs, detVars,
                   dmVars, BASE_VALUE, task_queue, callLog>>

IdNext == IdFetchAdd \/ IdReturn

SpecId == IdInit /\ [][IdNext]_vars

-----------------------------------------------------------------------------
(* gd-world: requestor/task_queue.rs. A TaskQueue on its own, repeating or   *)
(* not: the tasks of the configuration pushed in any order, pops in between. *)

\* the tasks TaskSpec::as_task builds, one of each TaskSpec
TqTasks == UNION {{as_task(r, k) : k \in DOMAIN TaskSpecs(r)} : r \in Requestors}
\* the calls of pop
MaxTqPops == 4

TqInit ==
    /\ pc = "queue"
    /\ NoWorld
    /\ BASE_VALUE = 0
    /\ idThreads = Idle0
    /\ \E repeating \in BOOLEAN : task_queue = [buffer |-> <<>>, repeating |-> repeating]
    /\ callLog = <<>>

\* TaskQueue::push of a task not pushed before
TqPush ==
    /\ pc = "queue"
    /\ \E task \in TqTasks :
          /\ \A i \in DOMAIN callLog : callLog[i].task # task
          /\ task_queue' = TaskQueue_push(task_queue, task)
          /\ callLog' = Append(callLog, [op |-> "push", task |-> task])
    /\ UNCHANGED <<now, events, pc, requestors, providers, worldObs, engineObs, detVars,
                   dmVars, BASE_VALUE, idThreads>>

\* TaskQueue::pop: None (NoTask) of an empty buffer, else the front
TqPop ==
    /\ pc = "queue"
    /\ Cardinality({i \in DOMAIN callLog : callLog[i].op = "pop"}) < MaxTqPops
    /\ IF task_queue.buffer = <<>>
       THEN /\ callLog' = Append(callLog, [op |-> "pop", task |-> NoTask])
            /\ UNCHANGED task_queue
       ELSE /\ callLog' = Append(callLog, [op |-> "pop", task |-> Head(task_queue.buffer)])
            /\ task_queue' = TaskQueue_pop(task_queue)
    /\ UNCHANGED <<now, events, pc, requestors, providers, worldObs, engineObs, detVars,
                   dmVars, BASE_VALUE, idThreads>>

TqNext == TqPush \/ TqPop

SpecQueue == TqInit /\ [][TqNext]_vars

-----------------------------------------------------------------------------
(* gd-world: provider/linear_usage_inflation.rs. report_usage of a           *)
(* LinearUsageInflationProvider on its own, as in tests::report_usage: of    *)
(* any usage factor, after any number of computed subtasks, for the subtasks *)
(* and at the bids of the providers on their own and at the bid 3.0.         *)

\* the subtasks a provider has computed
MaxComputed == 3

RpInit ==
    /\ pc = "report"
    /\ now = 0
    /\ events = EmptyBag
    /\ requestors = Idle0
    /\ \E uf \in {1, 2} :
          providers = [p \in {2} |-> [ProviderCommon_new(p) EXCEPT !.usage_factor = uf]]
    /\ lastEvent = NoWorldEvent
    /\ lastBids = {}
    /\ paid = <<>>
    /\ NoUnit
    /\ lastMessages = <<>>
    /\ lastVerify = NoVerify
    /\ lastCleared = Idle0
    /\ pulledOver = Idle0
    /\ crossed = Idle0
    /\ noBid = Idle0
    /\ popped = NoEvent
    /\ popCount = 0
    /\ lastPopTime = -1
    /\ schedLog = <<>>
    /\ detOrder = <<>>
    /\ detMessages = <<>>
    /\ detStats = <<>>
    /\ dm = Idle0
    /\ dmTask = Idle0
    /\ dmFlight = Idle0
    /\ dmCall = Idle0

\* Provider::report_usage of a subtask at a bid
RpReport ==
    /\ pc = "report"
    /\ \E p \in DOMAIN providers, subtask \in PvSubTasks,
          bid \in PvBids \cup {3 * MarginUnit} :
          \E usage \in report_usage(providers[p], subtask, bid) :
             callLog' = <<[op |-> "report_usage", provider |-> providers[p],
                           subtask |-> subtask, bid |-> bid, result |-> usage]>>
    /\ UNCHANGED <<now, events, pc, requestors, providers, worldObs, engineObs, detVars,
                   dmVars, BASE_VALUE, idThreads, task_queue>>

\* the provider has computed one more subtask (num_subtasks_computed += 1)
RpFinish ==
    /\ pc = "report"
    /\ \E p \in DOMAIN providers :
          /\ providers[p].num_subtasks_computed < MaxComputed
          /\ providers' = [providers EXCEPT ![p] = finish_computing(@, now)]
    /\ UNCHANGED <<now, events, pc, requestors, worldObs, engineObs, detVars,
                   dmVars, unitVars>>

RpNext == RpReport \/ RpFinish

SpecReport == RpInit /\ [][RpNext]_vars

-----------------------------------------------------------------------------
(* gd-world: requestor.rs, requestor/defence.rs. rank_offers on its own, as  *)
(* in tests::rank_offers: of any short list of offers, and of lists too long *)
(* for the insertion sort of sort_unstable_by.                               *)

\* slice::sort_unstable_by sorts a slice of up to this many elements by
\* insertion; a longer one by a quicksort that may reorder equal elements
MAX_INSERTION == 20
\* the length of the short lists of offers
MaxOffers == 3

\* the providers that bid, and the ratings the requestor holds for them
RkProviders == 1..(MAX_INSERTION + 1)
RkRatings == [p \in RkProviders |-> FracInt(IF p = 2 THEN 2 ELSE 1)]

\* the lists of offers ranked: each <<provider id, bid>>, at most one of a
\* provider; the short ones in any order at the bids 1 and 2, the long ones of
\* every provider in the order of the ids at bids that fall and repeat
RkOffers ==
    LET short == UNION {[1..n -> (1..(MaxOffers + 1)) \X {1, 2}] : n \in 0..MaxOffers}
        long == {[p \in RkProviders |-> <<p, 1 + ((k * p) % 3)>>] : k \in {1, 2}}
    IN  {bids \in short : \A i, j \in DOMAIN bids : i # j => bids[i][1] # bids[j][1]}
           \cup long

\* bids.sort_unstable_by of rank_offers: the orders it may leave. A short slice
\* is sorted by insertion (rank_offers above); of a long one the contract is an
\* ascending order only: here the one insertion gives and each one that has two
\* neighbours of equal effective price the other way round
sort_unstable_by(rt, bids) ==
    LET sorted == rank_offers(rt, bids)
        swap(i) == [j \in DOMAIN sorted |->
                       IF j = i THEN sorted[i + 1] ELSE IF j = i + 1 THEN sorted[i]
                       ELSE sorted[j]]
    IN  IF Len(bids) <= MAX_INSERTION THEN {sorted}
        ELSE {sorted} \cup
             {swap(i) : i \in {j \in 1..(Len(sorted) - 1) :
                                  EffectivePrice(rt, sorted[j])
                                     = EffectivePrice(rt, sorted[j + 1])}}

RkInit ==
    /\ pc = "rank"
    /\ NoWorld
    /\ BASE_VALUE = 0
    /\ idThreads = Idle0
    /\ task_queue = Idle0
    /\ \E bids \in RkOffers : callLog = <<[op |-> "collect", bids |-> bids]>>

\* Requestor::rank_offers of the collected offers
RkRank ==
    /\ pc = "rank"
    /\ Len(callLog) = 1
    /\ \E ranked \in sort_unstable_by(RkRatings, callLog[1].bids) :
          callLog' = Append(callLog, [op |-> "rank_offers", bids |-> ranked])
    /\ UNCHANGED <<now, events, pc, requestors, providers, worldObs, engineObs, detVars,
                   dmVars, BASE_VALUE, idThreads, task_queue>>

RkNext == RkRank

SpecRank == RkInit /\ [][RkNext]_vars

-----------------------------------------------------------------------------
(* Properties of the world *)

\* the ids of the subtasks of a deque
Ids(seq) == {seq[i].id : i \in DOMAIN seq}

\* the ids of the subtasks TaskSpec::as_task created task t of requestor r with
CreatedIds(r, t) == {t.id + n : n \in 1..CreatedCount(r, t)}

\* the subtasks dispatched and not yet verified: the keys of the verification map
InFlight(req) == DOMAIN req.verification_map

\* C1: for every requestor with a current task, the subtasks in pending, in done
\* and in flight (dispatched, verification not complete) are together exactly the
\* subtasks the task was created with, each in one place only: the three counts
\* add up to the created count and no subtask is lost or duplicated.
C1_Conservation ==
    \A r \in Requestors :
       LET req == requestors[r]
           t == req.task
       IN  t # NoTask =>
             /\ Len(t.pending) + Len(t.done) + Cardinality(InFlight(req))
                  = CreatedCount(r, t)
             /\ Ids(t.pending) \cup Ids(t.done) \cup InFlight(req) = CreatedIds(r, t)
             /\ Cardinality(Ids(t.pending)) = Len(t.pending)
             /\ Cardinality(Ids(t.done)) = Len(t.done)

\* a cancelled subtask went back to pending and was dispatched again
C1_Witness ==
    \E r \in Requestors :
       /\ requestors[r].num_subtasks_cancelled > 0
       /\ requestors[r].task # NoTask
       /\ InFlight(requestors[r]) # {}

\* every subtask the current task of the requestor was created with is in done
AllDone(req) == req.task # NoTask /\ CreatedIds(req.id, req.task) \subseteq Ids(req.task.done)

\* the handler that ran last is handle_compute of requestor r, which ends with
\* complete_task and schedule_advertise
AfterCompleteTask(r) ==
    /\ pc \in {"running", "stopped"}
    /\ lastEvent.event.tag = "SubTaskComputed"
    /\ lastEvent.event.requestor_id = r

\* C3: once every subtask of a task is verified Done, the complete_task call that
\* follows finds the task done and clears it, also when some subtask was
\* cancelled and pushed back to pending on the way: no complete_task call leaves
\* behind a current task whose subtasks are all in done.
C3_TaskCompletes ==
    \A r \in Requestors : AfterCompleteTask(r) => ~AllDone(requestors[r])

\* C7: no requestor has computed more tasks than it has advertised.
C7_ComputedAtMostAdvertised ==
    \A r \in Requestors :
       requestors[r].num_tasks_computed <= requestors[r].num_tasks_advertised

\* a requestor completed a task and pulled the next one
C7_Witness ==
    \E r \in Requestors :
       /\ requestors[r].num_tasks_computed >= 1
       /\ requestors[r].num_tasks_advertised > requestors[r].num_tasks_computed

\* C8: a requestor has at most one current task. advertise pulls from the queue
\* only when there is none, so the tasks advertised are the tasks computed plus
\* the current one, and the task complete_task cleared had all its subtasks in
\* done, none pending and none in flight.
C8_OneCurrentTask ==
    \A r \in Requestors :
       LET req == requestors[r]
           c == lastCleared[r]
       IN  /\ ~pulledOver[r]
           /\ req.num_tasks_advertised
                = req.num_tasks_computed + (IF req.task # NoTask THEN 1 ELSE 0)
           /\ c.task # NoTask =>
                 /\ CreatedIds(r, c.task) \subseteq Ids(c.task.done)
                 /\ c.task.pending = <<>>
                 /\ c.in_flight = 0

\* a requestor's task was cleared and the next one pulled from the queue
C8_Witness ==
    \E r \in Requestors :
       /\ lastCleared[r].task # NoTask
       /\ requestors[r].num_tasks_advertised = 2
       /\ requestors[r].task # NoTask

\* C9: for every current task, pending and done together never exceed size and
\* equal it when no subtask is in flight; is_done is true exactly when done
\* holds size subtasks, is_pending exactly when pending is non-empty.
C9_TaskSize ==
    \A r \in Requestors :
       LET req == requestors[r]
           t == req.task
       IN  t # NoTask =>
             /\ Len(t.pending) + Len(t.done) <= t.size
             /\ InFlight(req) = {} => Len(t.pending) + Len(t.done) = t.size
             /\ is_done(t) <=> Len(t.done) = t.size
             /\ is_pending(t) <=> Len(t.pending) > 0

\* C10: under Redundancy the first result of a dispatched subtask leaves the
\* verification Pending and the entry in the map; the second one removes the
\* entry and yields Done when at least one of the two results is a usage and
\* Cancelled when both are null, whichever of the two came first.
C10_VerificationProtocol ==
    lastVerify.status # "None" =>
       /\ Len(lastVerify.before) < REDUNDANCY_FACTOR
       /\ Len(lastVerify.before) = 0 =>
             lastVerify.status = "Pending" /\ ~lastVerify.removed
       /\ Len(lastVerify.before) = 1 =>
             /\ lastVerify.removed
             /\ lastVerify.status =
                  IF lastVerify.before[1].some \/ lastVerify.some
                  THEN "Done" ELSE "Cancelled"

\* the second result is a usage after a first that was null: Done
C10_Witness ==
    /\ Len(lastVerify.before) = 1
    /\ ~lastVerify.before[1].some
    /\ lastVerify.some
    /\ lastVerify.status = "Done"
    /\ lastVerify.removed

C4_NoBidWaitingIsLive ==
    \A r \in Requestors : \A k \in {1, 2} :
       (pc = "running" /\ noBid[r] = k)
          ~> (noBid[r] # k \/ now > until \/ pc = "panic")

\* C6: two runs of the same configuration with the same seed handle the same
\* events and write the same statistics in the same order: once both runs are
\* over, their advertisement times, the requestor handled first, the subtasks
\* it assigned (to whom, in which order) and the rows of statistics agree.
C6_Determinism ==
    (\A i \in Runs : detStats[i] # <<>>) =>
        /\ detMessages[1] = detMessages[2]
        /\ detStats[1] = detStats[2]

-----------------------------------------------------------------------------
(* Properties of the defence mechanisms. In a step of SpecDefence the unprimed
   dm, dmTask and dmFlight are the state before the call, dmCall' holds the
   arguments and the result, the primed variables are the state after. *)

\* the offers of bids the blacklist of d lets through
DmEligible(d, bids) == SelectSeq(bids, LAMBDA b : b[1] \notin DOMAIN d.blacklisted_set)

\* the offer <<provider id, bid>> a message <<provider id, subtask, bid>> answers
DmOffer(m) == <<m[1], m[3]>>

\* the messages are offers of bids, each provider once, in ascending order of
\* effective price, and no offer left out is cheaper than one served
DmCheapestFirst(d, bids, msgs) ==
    /\ \A i \in DOMAIN msgs : \E j \in DOMAIN bids : bids[j] = DmOffer(msgs[i])
    /\ \A i, j \in DOMAIN msgs : i # j => msgs[i][1] # msgs[j][1]
    /\ \A i, j \in DOMAIN msgs : i < j => ~DmPriceLt(d, DmOffer(msgs[j]), DmOffer(msgs[i]))
    /\ \A j \in DOMAIN bids :
          (\A i \in DOMAIN msgs : msgs[i][1] # bids[j][1]) =>
              \A i \in DOMAIN msgs : ~DmPriceLt(d, bids[j], DmOffer(msgs[i]))

\* C11: Redundancy dispatch. An assign_subtasks call of Redundancy with k eligible
\* offers and a task with pending subtasks dispatches n = min(k div 2, |pending|)
\* subtasks: the first n of pending, in order, each to the two providers of one
\* consecutive pair of the ranked eligible offers, at each provider's own bid, with
\* an empty verification entry recorded for it; the other subtasks stay pending,
\* an unpaired last offer gets nothing and no provider gets two messages.
C11_RedundancyDispatch ==
    [][dm.kind = "Redundancy" /\ dmCall'.op = "assign_subtasks" =>
        LET bids == DmEligible(dm, dmCall'.bids)
            msgs == dmCall'.messages
            n == Min(Len(bids) \div REDUNDANCY_FACTOR, Len(dmTask.pending))
        IN  /\ Len(msgs) = REDUNDANCY_FACTOR * n
            /\ DmCheapestFirst(dm, bids, msgs)
            /\ \A j \in 1..n :
                  /\ msgs[2 * j - 1][2] = dmTask.pending[j]
                  /\ msgs[2 * j][2] = dmTask.pending[j]
                  /\ dmTask.pending[j].id \in DOMAIN dm'.verification_map
                  /\ dm'.verification_map[dmTask.pending[j].id] = <<>>
            /\ dmTask'.pending = SubSeq(dmTask.pending, n + 1, Len(dmTask.pending))
            /\ DOMAIN dm'.verification_map =
                  DOMAIN dm.verification_map \cup {dmTask.pending[j].id : j \in 1..n}
    ]_vars

\* two pairs were served out of five eligible offers: the fifth got nothing, with
\* a subtask still pending
C11_Witness ==
    /\ dm.kind = "Redundancy"
    /\ dmCall.op = "assign_subtasks"
    /\ Len(DmEligible(dm, dmCall.bids)) = 5
    /\ Len(dmCall.messages) = 4
    /\ is_pending(dmTask)

\* the step is a verify_subtask call of Redundancy that completed a subtask with
\* two non-null results
DmTwoResults == dm.kind = "Redundancy" /\ dmCall'.op = "verify_subtask" /\ Len(dmCall'.vers) = 2

\* the two results <<hi, lo>> of the call in the orders the effective works allow
DmHiLo(vers) ==
    {<<vers[i], vers[3 - i]>> : i \in {j \in 1..2 : FracGe(vers[j].d, vers[3 - j].d)}}

C13_LoserOnlyUpdate ==
    [][DmTwoResults =>
        /\ dmCall'.status = "Done"
        /\ \E pair \in DmHiLo(dmCall'.vers) :
              LET hi == pair[1]
                  lo == pair[2]
                  f == FracDiv(hi.d, lo.d)
              IN  /\ dm'.ratings[hi.id] = FracMul(dm.ratings[hi.id], f)
                  /\ FracLt(lo.d, hi.d) => FracLt(dm.ratings[hi.id], dm'.ratings[hi.id])
                  /\ dm'.ratings[lo.id] = dm.ratings[lo.id]
                  /\ FracGe(dm'.ratings[hi.id], FracInt(MAX_RATING)) =>
                        /\ hi.id \in DOMAIN dm'.blacklisted_set
                        /\ dm'.blacklisted_set[hi.id] = Indefinitely
    ]_vars

\* two non-null results with different effective works have just arrived: the
\* rating of p_hi is worse than its benchmark and p_lo still has its benchmark
C13_Witness ==
    /\ dm.kind = "Redundancy"
    /\ dmCall.op = "verify_subtask"
    /\ Len(dmCall.vers) = 2
    /\ \E pair \in DmHiLo(dmCall.vers) :
          /\ FracLt(pair[2].d, pair[1].d)
          /\ FracLt(FracInt(DmUsageFactor(pair[1].id)), dm.ratings[pair[1].id])
          /\ dm.ratings[pair[2].id] = FracInt(DmUsageFactor(pair[2].id))

\* C13 as stated: when two non-null results arrive for a subtask both ratings are
\* updated, with f = sqrt(d_hi / d_lo): rating(p_hi) is multiplied by f and
\* rating(p_lo) is divided by f (it improves strictly when d_hi > d_lo); p_hi is
\* blacklisted indefinitely if its rating is then >= 2.0. The square root is
\* stated through its square: (r' / r)^2 = d_hi / d_lo.
C13_SqrtUpdate ==
    [][DmTwoResults =>
        \E pair \in DmHiLo(dmCall'.vers) :
            LET hi == pair[1]
                lo == pair[2]
                up == FracDiv(dm'.ratings[hi.id], dm.ratings[hi.id])
                down == FracDiv(dm.ratings[lo.id], dm'.ratings[lo.id])
            IN  /\ FracMul(up, up) = FracDiv(hi.d, lo.d)
                /\ FracMul(down, down) = FracDiv(hi.d, lo.d)
                /\ FracLt(lo.d, hi.d) => FracLt(dm'.ratings[lo.id], dm.ratings[lo.id])
                /\ FracGe(dm'.ratings[hi.id], FracInt(MAX_RATING)) =>
                      /\ hi.id \in DOMAIN dm'.blacklisted_set
                      /\ dm'.blacklisted_set[hi.id] = Indefinitely
    ]_vars

\* the step is a complete_task call of the mechanism of the kind
DmCompletes(kind) == dm.kind = kind /\ dmCall'.op = "complete_task"

\* C14: LGRola ban decay. In a complete_task call every Until(n) entry of the
\* blacklist decreases by exactly 1 and is removed when it reaches 0 (so that a
\* ban of Until(n) filters the provider out for n completed tasks); Indefinitely
\* entries are neither decremented nor removed. A provider of the task that the
\* call bans gets the length of its new ban.
C14_BanDecay ==
    [][DmCompletes("LGRola") =>
        \A id \in DOMAIN dm.blacklisted_set :
            LET ban == dm.blacklisted_set[id]
            IN  IF ban = Indefinitely
                THEN id \in DOMAIN dm'.blacklisted_set /\ dm'.blacklisted_set[id] = Indefinitely
                ELSE IF id \in DOMAIN dm.task_usages THEN TRUE
                ELSE IF ban - 1 <= 0 THEN id \notin DOMAIN dm'.blacklisted_set
                ELSE id \in DOMAIN dm'.blacklisted_set /\ dm'.blacklisted_set[id] = ban - 1
    ]_vars

\* the geometric-mean usages of the providers of the task, in ascending order
DmTaskMeans(d) ==
    LET ids == Keys(DOMAIN d.task_usages)
    IN  SortAsc([i \in DOMAIN ids |-> geometric_mean(d.task_usages[ids[i]])])

\* the providers of the task whose geometric-mean usage exceeds Q3 + 1.5 * IQR
DmOutliers(d) ==
    LET means == DmTaskMeans(d)
        limit == FracAdd(upper_quartile(means), FracMul(<<3, 2>>, interquartile_range(means)))
    IN  {p \in DOMAIN d.task_usages :
            FracLt(limit, FracInt(geometric_mean(d.task_usages[p])))}

\* the collision counter of a provider, 0 when it has none yet
DmCollisions(d, p) == IF p \in DOMAIN d.collisions THEN d.collisions[p] ELSE 0

\* C15: LGRola outlier detection. A complete_task call bans exactly the providers
\* of the task whose geometric-mean usage exceeds Q3 + 1.5 * IQR of the geometric
\* means of all providers of the task: the collision counter of each goes up by
\* one and it is blacklisted with Until(ceil(exp(collisions))), Until(3) on a first
\* offence; the counter of every other provider of the task goes down by one but
\* not below zero; no other provider enters the blacklist and no other counter
\* changes.
C15_OutlierDetection ==
    [][DmCompletes("LGRola") =>
        LET parts == DOMAIN dm.task_usages
            out == DmOutliers(dm)
        IN  /\ \A p \in out :
                  /\ DmCollisions(dm', p) = DmCollisions(dm, p) + 1
                  /\ p \in DOMAIN dm'.blacklisted_set
                  /\ dm'.blacklisted_set[p] = ExpCeil[DmCollisions(dm', p)]
                  /\ DmCollisions(dm, p) = 0 => dm'.blacklisted_set[p] = 3
            /\ \A p \in parts \ out :
                  /\ p \in DOMAIN dm'.collisions
                  /\ dm'.collisions[p] =
                        IF DmCollisions(dm, p) > 0 THEN DmCollisions(dm, p) - 1 ELSE 0
            /\ \A p \in DOMAIN dm'.blacklisted_set \ out : p \in DOMAIN dm.blacklisted_set
            /\ \A p \in DmProviders \ parts :
                  /\ p \in DOMAIN dm'.collisions <=> p \in DOMAIN dm.collisions
                  /\ DmCollisions(dm', p) = DmCollisions(dm, p)
    ]_vars

\* a complete_task call has just banned a provider for the second time, with
\* Until(8), while a provider that is not banned has a counter of 0
C15_Witness ==
    /\ dm.kind = "LGRola"
    /\ dmCall.op = "complete_task"
    /\ \E p, q \in DOMAIN dm.collisions :
          /\ p \in DOMAIN dm.blacklisted_set
          /\ dm.blacklisted_set[p] = 8
          /\ dm.collisions[p] = 2
          /\ q \notin DOMAIN dm.blacklisted_set
          /\ dm.collisions[q] = 0

\* C16: LGRola never touches ratings. No assign_subtasks, verify_subtask or
\* complete_task call of LGRola changes an entry of the ratings map: the ratings
\* stay the ones the benchmarks seeded.
C16_RatingsUntouched ==
    [][dm.kind = "LGRola" =>
        /\ dm'.ratings = dm.ratings
        /\ \A p \in DmProviders : dm'.ratings[p] = FracInt(DmUsageFactor(p))
    ]_vars

\* a complete_task call of LGRola has just banned a provider whose usages were
\* above those of the others, and calls of all three kinds have been made
C16_Witness ==
    /\ dm.kind = "LGRola"
    /\ dmCall.op = "complete_task"
    /\ \E p \in DOMAIN dm.blacklisted_set : dm.blacklisted_set[p] = 3
    /\ \A p \in DmProviders : dm.ratings[p] = FracInt(DmUsageFactor(p))

\* C17: dispatch without redundancy. An assign_subtasks call of CTasks or of
\* LGRola with k eligible offers dispatches min(k, |pending|) subtasks: the i-th
\* cheapest eligible offer (ascending bid * rating) gets the i-th subtask from the
\* front of pending at its own bid, each subtask goes to one provider only, and
\* the other subtasks stay pending.
C17_SequentialDispatch ==
    [][dm.kind \in {"CTasks", "LGRola"} /\ dmCall'.op = "assign_subtasks" =>
        LET bids == DmEligible(dm, dmCall'.bids)
            msgs == dmCall'.messages
            n == Min(Len(bids), Len(dmTask.pending))
        IN  /\ Len(msgs) = n
            /\ DmCheapestFirst(dm, bids, msgs)
            /\ \A i \in 1..n : msgs[i][2] = dmTask.pending[i]
            /\ \A i, j \in 1..n : i # j => msgs[i][2].id # msgs[j][2].id
            /\ dmTask'.pending = SubSeq(dmTask.pending, n + 1, Len(dmTask.pending))
            /\ dm' = dm
    ]_vars

\* four eligible offers out of five bids have each been sent one of five pending
\* subtasks, and the fifth subtask is still pending
C17_Witness ==
    /\ dm.kind \in {"CTasks", "LGRola"}
    /\ dmCall.op = "assign_subtasks"
    /\ Len(dmCall.bids) = 5
    /\ Len(DmEligible(dm, dmCall.bids)) = 4
    /\ Len(dmCall.messages) = 4
    /\ is_pending(dmTask)

\* the rating MAX_RATING as CTasks keeps ratings
DmMaxRating == FracInt(Log2(MAX_RATING))

\* C18: the blacklisting threshold of CTasks. In complete_task a provider of the
\* task is blacklisted indefinitely exactly when its rating after the update is
\* greater than or equal to MAX_RATING = 2.0; a provider whose rating after the
\* update equals 2.0 is blacklisted.
C18_ThresholdInclusive ==
    [][DmCompletes("CTasks") =>
        \A p \in DOMAIN dm.task_usages :
            /\ p \notin DOMAIN dm.blacklisted_set
            /\ FracGe(dm'.ratings[p], DmMaxRating) <=>
                  /\ p \in DOMAIN dm'.blacklisted_set
                  /\ dm'.blacklisted_set[p] = Indefinitely
    ]_vars

\* a complete_task call has just brought the rating of a provider from 1.0 to
\* exactly 2.0 and blacklisted it
C18_Witness ==
    /\ dm.kind = "CTasks"
    /\ dmCall.op = "complete_task"
    /\ \E p \in DmProviders :
          /\ DmUsageFactor(p) = 1
          /\ FracGe(dm.ratings[p], DmMaxRating)
          /\ FracGe(DmMaxRating, dm.ratings[p])
          /\ p \in DOMAIN dm.blacklisted_set

\* C18 as stated: in complete_task a provider of the task is blacklisted
\* indefinitely exactly when its rating after the update is strictly greater than
\* MAX_RATING = 2.0; a provider whose rating after the update equals 2.0 is not
\* blacklisted.
C18_ThresholdStrict ==
    [][DmCompletes("CTasks") =>
        \A p \in DOMAIN dm.task_usages :
            FracLt(DmMaxRating, dm'.ratings[p]) <=>
                /\ p \in DOMAIN dm'.blacklisted_set
                /\ dm'.blacklisted_set[p] = Indefinitely
    ]_vars

-----------------------------------------------------------------------------
(* Properties of the providers *)

\* the step is World::handle_advertise of a TaskAdvertisement
AdvertiseStep ==
    /\ pc = "running"
    /\ pc' \in {"running", "panic"}
    /\ popCount' = popCount + 1
    /\ lastEvent'.event.tag = "TaskAdvertisement"

\* the providers the messages name
Recipients(messages) == {messages[i][1] : i \in DOMAIN messages}

\* C19: provider offers. When an advertisement is handled, the offers collected
\* are one offer, at its price, of each provider that is Idle and none of a
\* provider that is Busy; collecting them changes no provider, so only the
\* providers that are sent a subtask change, and those were Idle.
C19_OffersIffIdle ==
    [][AdvertiseStep =>
        /\ \A p \in DOMAIN providers :
              /\ providers[p].state = "Idle" => <<p, price(providers[p])>> \in lastBids'
              /\ providers[p].state = "Busy" => \A o \in lastBids' : o[1] # p
        /\ \A o \in lastBids' : o = <<o[1], price(providers[o[1]])>>
        /\ \A i \in DOMAIN lastMessages' : providers[lastMessages'[i][1]].state = "Idle"
        /\ \A p \in DOMAIN providers \ Recipients(lastMessages') : providers'[p] = providers[p]
    ]_vars

\* an advertisement has just been handled while a provider was Busy: it made no
\* offer and got no subtask, and an Idle provider did
C19_Witness ==
    /\ pc = "running"
    /\ lastEvent.event.tag = "TaskAdvertisement"
    /\ lastMessages # <<>>
    /\ \E p \in DOMAIN providers :
          /\ providers[p].state = "Busy"
          /\ p \notin Recipients(lastMessages)
          /\ \A o \in lastBids : o[1] # p

\* the step is a receive_subtask call on a provider driven on its own
ReceiveStep == pc = "provider" /\ lastMessages' # <<>>

\* C20: receive_subtask schedules exactly one event for the assignment. With
\* expected_usage = nominal_usage * usage_factor it is SubTaskBudgetExceeded at
\* now + budget / bid when expected_usage * bid > budget, and otherwise, equality
\* included, SubTaskComputed at now + expected_usage; the provider becomes Busy
\* and its num_subtasks_assigned goes up by one.
C20_OneFollowOnEvent ==
    [][ReceiveStep =>
        LET p == lastMessages'[1][1]
            subtask == lastMessages'[1][2]
            bid == lastMessages'[1][3]
            expected_usage == subtask.nominal_usage * providers[p].usage_factor
            scheduled == events' (-) events
        IN  /\ events \sqsubseteq events'
            /\ BagCardinality(scheduled) = 1
            /\ \A w \in BagToSet(scheduled) :
                  IF expected_usage * bid > subtask.budget
                  THEN /\ w.event = SubTaskBudgetExceeded(subtask, 1, p)
                       /\ w.time * bid = now * bid + subtask.budget
                  ELSE /\ w.event = SubTaskComputed(subtask, 1, p, bid)
                       /\ w.time = now + expected_usage
            /\ providers'[p].state = "Busy"
            /\ providers'[p].num_subtasks_assigned = providers[p].num_subtasks_assigned + 1
            /\ now' = now
    ]_vars

\* a subtask whose expected cost is exactly its budget has just been received at
\* a time after 0 by a provider that had one before: it is to be computed
C20_Witness ==
    /\ pc = "provider"
    /\ lastMessages # <<>>
    /\ now > 0
    /\ LET p == lastMessages[1][1]
           subtask == lastMessages[1][2]
           bid == lastMessages[1][3]
       IN  /\ subtask.nominal_usage * providers[p].usage_factor * bid = subtask.budget
           /\ providers[p].state = "Busy"
           /\ providers[p].num_subtasks_assigned = 2
           /\ \E w \in BagToSet(events) :
                 /\ w.event = SubTaskComputed(subtask, 1, p, bid)
                 /\ w.time = now + subtask.nominal_usage * providers[p].usage_factor

\* the step is World::handle_compute of a SubTaskComputed
ComputeStep ==
    /\ pc = "running"
    /\ pc' \in {"running", "panic"}
    /\ popCount' = popCount + 1
    /\ lastEvent'.event.tag = "SubTaskComputed"

\* the step is World::handle_budget_exceeded of a SubTaskBudgetExceeded
ExceededStep ==
    /\ pc = "running"
    /\ pc' \in {"running", "panic"}
    /\ popCount' = popCount + 1
    /\ lastEvent'.event.tag = "SubTaskBudgetExceeded"

\* C21: price and margin frame. Every offer collected is (1 + profit_margin) *
\* min_price of its provider at its current margin. A step changes a margin only
\* by receive_subtask, which lowers it by the factor of the time since the last
\* checkpoint, or by finish_computing, which raises it by that factor; a budget
\* exceeded (cancel_computing) changes no margin, collecting offers, payments,
\* benchmarks and usage reports change none, and min_price never changes.
C21_PriceMarginFrame ==
    [][/\ \A p \in DOMAIN providers : providers'[p].min_price = providers[p].min_price
       /\ AdvertiseStep =>
            /\ \A o \in lastBids' :
                  o[2] = (MarginUnit + providers[o[1]].profit_margin)
                            * providers[o[1]].min_price
            /\ \A p \in DOMAIN providers :
                  IF p \in Recipients(lastMessages') /\ pc' = "running"
                  THEN LET m == providers[p].profit_margin
                           duration == now' - providers[p].last_checkpoint
                       IN  /\ providers'[p].profit_margin
                                = m - (m * duration) \div ALPHA_INV
                           /\ providers'[p].profit_margin <= m
                  ELSE providers'[p].profit_margin = providers[p].profit_margin
       /\ ComputeStep =>
            \A p \in DOMAIN providers :
                  IF p = lastEvent'.event.provider_id /\ pc' = "running"
                  THEN LET m == providers[p].profit_margin
                           duration == now' - providers[p].last_checkpoint
                       IN  /\ providers'[p].profit_margin
                                = m + (m * duration) \div BETA_INV
                           /\ providers'[p].profit_margin >= m
                  ELSE providers'[p].profit_margin = providers[p].profit_margin
       /\ ~AdvertiseStep /\ ~ComputeStep =>
            \A p \in DOMAIN providers :
                  providers'[p].profit_margin = providers[p].profit_margin
    ]_vars

\* a budget exceeded has just been handled for a provider whose margin
\* receive_subtask had lowered, and it is still lowered; another provider has
\* finished a subtask and been paid, and its margin went down and up by then
C21_Witness ==
    /\ pc = "running"
    /\ lastEvent.event.tag = "SubTaskBudgetExceeded"
    /\ LET p == lastEvent.event.provider_id
       IN  /\ providers[p].state = "Idle"
           /\ providers[p].num_subtasks_cancelled > 0
           /\ providers[p].profit_margin < MarginUnit
           /\ providers[p].last_checkpoint = now
    /\ \E q \in DOMAIN providers :
          /\ providers[q].num_subtasks_computed > 0
          /\ providers[q].revenue > 0
          /\ providers[q].profit_margin # MarginUnit

\* C22: payment. Revenue changes only on a step that handles a SubTaskComputed,
\* and only that of the provider the event names: it goes up by exactly bid *
\* reported_usage for the usage the provider reported (the one the requestor's
\* mean_cost took in), whether the verification came out Pending or Done and
\* whether or not the requestor has the provider blacklisted before or after.
\* Handling a SubTaskBudgetExceeded changes no revenue and no mean_cost.
C22_Payment ==
    [][/\ ComputeStep /\ pc' = "running" =>
            LET e == lastEvent'.event
                p == e.provider_id
                r == e.requestor_id
            IN  /\ \E u \in report_usage(finish_computing(providers[p], now'),
                                         e.subtask, e.bid) :
                      /\ providers'[p].revenue = providers[p].revenue + e.bid * u
                      /\ requestors'[r].mean_cost
                           = send_payment(requestors[r], e.subtask, e.bid, u).requestor.mean_cost
                /\ lastVerify'.status \in {"Pending", "Done"}
                /\ \A q \in DOMAIN providers \ {p} :
                      providers'[q].revenue = providers[q].revenue
       /\ ~(ComputeStep /\ pc' = "running") =>
            \A q \in DOMAIN providers : providers'[q].revenue = providers[q].revenue
       /\ ExceededStep =>
            \A r \in DOMAIN requestors : requestors'[r].mean_cost = requestors[r].mean_cost
    ]_vars

\* the one subtask a provider has computed has just been handled: its result
\* closed the verification, the requestor blacklisted the provider in that call,
\* and the provider was paid all the same
C22_Witness ==
    /\ pc = "running"
    /\ lastEvent.event.tag = "SubTaskComputed"
    /\ lastVerify.status = "Done"
    /\ LET p == lastEvent.event.provider_id
           r == lastEvent.event.requestor_id
       IN  /\ providers[p].num_subtasks_computed = 1
           /\ p \in requestors[r].blacklisted_set
           /\ providers[p].revenue > 0
           /\ requestors[r].mean_cost[1] > 0

\* C23: budget cap. For every subtask, the payments the requestor has sent for
\* it, summed over the providers it was dispatched to, are at most its budget.
C23_BudgetCap ==
    \A k \in DOMAIN paid : paid[k].sum <= SubTask(k[2], k[1]).budget

\* C24: deadline. An iteration of World::run that hands an event to a handler
\* hands over an earliest event of the queue, and its time is at most until.
\* The loop ends only on an empty queue or on popping an earliest event whose
\* time is after until: that event leaves the queue, no handler sees it and no
\* requestor or provider changes. While the earliest event is at or before
\* until, the time until itself included, the loop does not end.
C24_Deadline ==
    [][pc = "running" =>
        /\ pc' = "running" =>
              /\ lastEvent'.time <= until
              /\ lastEvent'.time = now'
              /\ BagIn(lastEvent', events)
              /\ \A w \in BagToSet(events) : lastEvent'.time <= w.time
        /\ pc' = "stopped" =>
              /\ requestors' = requestors
              /\ providers' = providers
              /\ lastEvent' = lastEvent
              /\ \/ events = EmptyBag /\ events' = events /\ now' = now
                 \/ \E w \in BagToSet(events) :
                       /\ \A x \in BagToSet(events) : w.time <= x.time
                       /\ until < w.time
                       /\ now' = w.time
                       /\ events' = events (-) SetToBag({w})
        /\ (\E w \in BagToSet(events) : w.time <= until) => pc' # "stopped"
    ]_vars

\* the loop has ended on an event after the deadline, and the last event it
\* handled was one at the deadline exactly
C24_Witness ==
    /\ pc = "stopped"
    /\ until < now
    /\ lastEvent.time = until

-----------------------------------------------------------------------------
(* Properties of the parts exercised on their own *)

\* the values Id::new has handed out to the replications: <<replication, call, value>>
IdsHandedOut(threads) ==
    UNION {{<<t, i, threads[t].ids[i]>> : i \in DOMAIN threads[t].ids}
              \cup (IF threads[t].at = "fetched"
                    THEN {<<t, Len(threads[t].ids) + 1, threads[t].value>>} ELSE {}) :
           t \in DOMAIN threads}

\* C25: id uniqueness. However the calls of the parallel replications
\* interleave, no two calls of Id::new get the same value, the ids of one
\* replication increase strictly from call to call, and each fetch_add hands
\* out a value larger than every value handed out before it.
C25_IdUnique ==
    [][pc = "id" =>
        /\ \A a, b \in IdsHandedOut(idThreads') :
              /\ a[3] = b[3] => a = b
              /\ a[1] = b[1] /\ a[2] < b[2] => a[3] < b[3]
        /\ \A a \in IdsHandedOut(idThreads') \ IdsHandedOut(idThreads) :
              \A b \in IdsHandedOut(idThreads) : b[3] < a[3]
    ]_vars

\* replication 1 fetched the first value and has not returned yet, while
\* replication 2 made both its calls and replication 3 one: six values are out
C25_Witness ==
    /\ pc = "id"
    /\ idThreads[1].at = "fetched"
    /\ idThreads[1].ids = <<0>>
    /\ idThreads[2].ids = <<1, 4>>
    /\ idThreads[3].ids = <<2, 3>>
    /\ idThreads[1].value = 5

\* the tasks the calls of the log pushed, and those its calls of pop returned
Pushed(log) == SelectSeq(log, LAMBDA c : c.op = "push")
Popped(log) == SelectSeq(log, LAMBDA c : c.op = "pop" /\ c.task # NoTask)

\* the step is a call of TaskQueue::pop
PopStep == pc = "queue" /\ Len(callLog') = Len(callLog) + 1 /\ callLog'[Len(callLog')].op = "pop"

\* C26: TaskQueue::pop. A pop of an empty queue yields no task and changes
\* nothing, in both modes; a pop of a non-empty queue yields the front of the
\* buffer, the task in the queue longest. Not repeating, the task leaves the
\* queue: the tasks returned so far are the tasks pushed first, in the order of
\* their pushes and each once, and the buffer holds the rest. Repeating, the
\* task goes to the back and the length stays; with the pushes made before the
\* pops, the k-th pop returns the task pushed ((k - 1) mod n) + 1-th of n.
C26_TaskQueuePop ==
    [][PopStep =>
        LET buffer == task_queue.buffer
            result == callLog'[Len(callLog')].task
            pushed == Pushed(callLog')
            returned == Popped(callLog')
        IN  /\ task_queue'.repeating = task_queue.repeating
            /\ IF buffer = <<>>
               THEN result = NoTask /\ task_queue'.buffer = <<>>
               ELSE /\ result = Head(buffer)
                    /\ result # NoTask
                    /\ IF task_queue.repeating
                       THEN /\ Len(task_queue'.buffer) = Len(buffer)
                            /\ task_queue'.buffer = Append(Tail(buffer), result)
                       ELSE task_queue'.buffer = Tail(buffer)
            /\ ~task_queue.repeating =>
                  /\ Len(returned) <= Len(pushed)
                  /\ \A k \in DOMAIN returned : returned[k].task = pushed[k].task
                  /\ task_queue'.buffer
                       = [i \in 1..(Len(pushed) - Len(returned)) |-> pushed[Len(returned) + i].task]
            /\ (/\ task_queue.repeating
                /\ \A i, j \in DOMAIN callLog' :
                      i < j /\ callLog'[i].op = "pop" => callLog'[j].op = "pop") =>
                  \A k \in DOMAIN returned :
                      returned[k].task = pushed[((k - 1) % Len(pushed)) + 1].task
    ]_vars

\* a repeating queue of two tasks has been returned three times: the first task,
\* the second, and the first again; the queue still holds two tasks
C26_Witness ==
    /\ pc = "queue"
    /\ task_queue.repeating
    /\ Len(callLog) = 5
    /\ callLog[1].op = "push" /\ callLog[2].op = "push"
    /\ callLog[3] = [op |-> "pop", task |-> callLog[1].task]
    /\ callLog[4] = [op |-> "pop", task |-> callLog[2].task]
    /\ callLog[5] = [op |-> "pop", task |-> callLog[1].task]
    /\ Len(task_queue.buffer) = 2

\* the id of a task and the ids of its subtasks
TaskIds(task) ==
    {task.id} \cup {task.pending[i].id : i \in DOMAIN task.pending}
               \cup {task.done[i].id : i \in DOMAIN task.done}

\* the step is a pop of a repeating queue that holds a task
RepeatStep == PopStep /\ task_queue.repeating /\ task_queue.buffer # <<>>

\* C27, as claimed: the copy a repeating pop moves to the back has a new task
\* id and fresh subtask ids, different from those of the task returned and from
\* those of every task returned before.
C27_FreshCopy ==
    [][RepeatStep =>
        LET copy == task_queue'.buffer[Len(task_queue'.buffer)]
        IN  \A i \in DOMAIN callLog' :
               callLog'[i].op = "pop" =>
                  TaskIds(copy) \cap TaskIds(callLog'[i].task) = {}
    ]_vars

\* C27, amended: the copy a repeating pop moves to the back is a clone of the
\* task returned: it has the same task id and the same subtask ids, and so have
\* the copies of every later repetition of that task.
C27_SameCopy ==
    [][RepeatStep =>
        LET copy == task_queue'.buffer[Len(task_queue'.buffer)]
            result == callLog'[Len(callLog')].task
        IN  /\ copy = result
            /\ TaskIds(copy) = TaskIds(result)
            /\ \A i \in DOMAIN callLog' :
                  callLog'[i].op = "push" /\ callLog'[i].task.id = result.id
                     => callLog'[i].task = copy
    ]_vars

\* a repeating queue has returned a task of two subtasks for the second time,
\* and the copy at its back has the ids the task was pushed with
C27_Witness ==
    /\ pc = "queue"
    /\ task_queue.repeating
    /\ task_queue.buffer # <<>>
    /\ LET copy == task_queue.buffer[Len(task_queue.buffer)]
           n == Len(callLog)
       IN  /\ n > 2
           /\ callLog[n].op = "pop"
           /\ callLog[n].task = copy
           /\ Len(copy.pending) = 2
           /\ \E i \in 1..(n - 1) : callLog[i] = callLog[n]
           /\ \E i \in 1..(n - 1) : callLog[i] = [op |-> "push", task |-> copy]

\* C28: FIFO among equal times. A pop never returns an event while an event of
\* the same time that was scheduled before it is still in the queue. (The
\* events of the engine on its own are numbered in the order of the schedule
\* calls.)
C28_FifoAmongEqualTimes ==
    [][pc = "engine" /\ popCount' = popCount + 1 /\ popped'.time # -1 =>
        \A w \in BagToSet(events') :
           w.time = popped'.time => popped'.event < w.event
    ]_vars

\* the step is a report_usage call on a provider on its own
ReportStep == pc = "report" /\ callLog' # callLog

\* C29: report_usage of LinearUsageInflation. With inflated = computed * factor
\* + usage_factor * nominal_usage, the report is inflated when inflated * bid
\* is within the budget and budget / bid otherwise, the smaller of the two; so
\* the report times the bid never exceeds the budget, each computed subtask
\* adds factor below the cap, and with nothing computed the report is the
\* truthful usage_factor * nominal_usage of a subtask that fits its budget.
C29_LinearInflation ==
    [][ReportStep =>
        LET c == callLog'[1]
            computed == c.provider.num_subtasks_computed
            truthful == c.provider.usage_factor * c.subtask.nominal_usage
            inflated == computed * inflation_factor(c.provider.id) + truthful
        IN  /\ c.provider = providers[c.provider.id]
            /\ providers' = providers
            /\ IF inflated * c.bid <= c.subtask.budget
               THEN c.result = inflated
               ELSE c.result * c.bid = c.subtask.budget
            /\ c.result <= inflated
            /\ c.result * c.bid <= c.subtask.budget
            /\ computed = 0 /\ truthful * c.bid <= c.subtask.budget => c.result = truthful
    ]_vars

\* a provider that has computed subtasks has reported more than the truthful
\* usage and less than the inflated one: the report is budget / bid
C29_Witness ==
    /\ pc = "report"
    /\ callLog # <<>>
    /\ LET c == callLog[1]
           truthful == c.provider.usage_factor * c.subtask.nominal_usage
       IN  /\ c.provider.num_subtasks_computed > 0
           /\ truthful < c.result
           /\ c.result < c.provider.num_subtasks_computed * inflation_factor(c.provider.id)
                           + truthful
           /\ c.result * c.bid = c.subtask.budget

\* the send_payment calls a requestor made for the subtasks keys, and the sum of
\* their costs over the budget, payment / subtask.budget
RECURSIVE CallCount(_, _)
CallCount(payments, keys) ==
    IF keys = {} THEN 0
    ELSE LET k == CHOOSE x \in keys : TRUE
         IN  payments[k].n + CallCount(payments, keys \ {k})
RECURSIVE CostSum(_, _)
CostSum(payments, keys) ==
    IF keys = {} THEN FracInt(0)
    ELSE LET k == CHOOSE x \in keys : TRUE
         IN  FracAdd(Frac(payments[k].sum, SubTask(k[2], k[1]).budget),
                     CostSum(payments, keys \ {k}))

\* C30: mean-cost accumulation. After every step, for every requestor,
\* mean_cost.n is the number k of send_payment calls made for its subtasks, and
\* k * mean_cost.mu is the sum of the k costs bid * reported_usage / budget, so
\* mu is their arithmetic mean (0 before the first call); the payment a call
\* returns, which the provider receives, is bid * reported_usage.
C30_MeanCost ==
    [][pc = "running" /\ pc' = "running" =>
        /\ \A r \in DOMAIN requestors :
              LET keys == {k \in DOMAIN paid' : k[1] = r}
                  n == requestors'[r].mean_cost[1]
                  mu == requestors'[r].mean_cost[2]
              IN  /\ n = CallCount(paid', keys)
                  /\ FracMul(mu, FracInt(n)) = CostSum(paid', keys)
                  /\ n = 0 => mu = FracInt(0)
        /\ ComputeStep =>
              LET e == lastEvent'.event
                  key == <<e.requestor_id, e.subtask.id>>
                  was == IF key \in DOMAIN paid THEN paid[key].sum ELSE 0
                  payment == paid'[key].sum - was
              IN  /\ payment = providers'[e.provider_id].revenue
                                  - providers[e.provider_id].revenue
                  /\ \E u \in report_usage(finish_computing(providers[e.provider_id], now'),
                                           e.subtask, e.bid) :
                        /\ payment = e.bid * u
                        /\ requestors'[e.requestor_id].mean_cost[1]
                             = requestors[e.requestor_id].mean_cost[1] + 1
    ]_vars

\* a requestor has paid four times, for two subtasks, payments that are not all
\* the same: its mean cost is the mean of the four costs and none of them
C30_Witness ==
    /\ pc = "running"
    /\ \E r \in DOMAIN requestors :
          /\ requestors[r].mean_cost[1] = 4
          /\ \E j, k \in DOMAIN paid :
                /\ j[1] = r /\ k[1] = r /\ j # k
                /\ paid[j].n = 2 /\ paid[k].n = 2
                /\ paid[j].sum # paid[k].sum
                /\ requestors[r].mean_cost[2] # FracDiv(Frac(paid[j].sum, 2), FracInt(SubTask(j[2], r).budget))
                /\ requestors[r].mean_cost[2] # FracDiv(Frac(paid[k].sum, 2), FracInt(SubTask(k[2], r).budget))

-----------------------------------------------------------------------------
(* Properties of the requestors' handlers *)

\* the number of TaskAdvertisement events of requestor x in the queue q
AdCount(q, x) ==
    LET ads == {w \in BagToSet(q) : w.event = TaskAdvertisement(x)}
    IN  BagCardinality([w \in ads |-> q[w]])

\* the step ran World::schedule_advertise to its end
ScheduleAdvertiseStep ==
    /\ pc' = "running"
    /\ pc = "init" \/ ComputeStep \/ ExceededStep

\* C31: advertise case analysis. In a step that runs schedule_advertise, a
\* requestor the step's handler touches in no other way (every requestor at the
\* start, where only the ratings are seeded; every requestor but the event's
\* afterwards) changes as advertise's four cases say: with a current task that has
\* pending subtasks, num_readvertisements grows by one and exactly one
\* TaskAdvertisement of it is scheduled at now + READVERT_DELAY; with a current
\* task and nothing pending nothing changes and nothing is scheduled; with no
\* current task and a task in the queue, that task becomes current,
\* num_tasks_advertised grows by one and exactly one TaskAdvertisement of it is
\* scheduled after the Exp draw; with no current task and an empty queue nothing
\* happens.
C31_AdvertiseCases ==
    [][ScheduleAdvertiseStep =>
         \A x \in Requestors :
            (pc = "init" \/ x # lastEvent'.event.requestor_id) =>
               LET req == [requestors[x] EXCEPT !.ratings = requestors'[x].ratings]
                   after == requestors'[x]
                   at(t) == EventWrapper(t, TaskAdvertisement(x))
                   added(t) == CopiesIn(at(t), events') - CopiesIn(at(t), events)
                   total == AdCount(events', x) - AdCount(events, x)
               IN  /\ pc # "init" => after.ratings = requestors[x].ratings
                   /\ CASE req.task # NoTask /\ is_pending(req.task) ->
                             /\ after = [req EXCEPT !.num_readvertisements = @ + 1]
                             /\ total = 1
                             /\ added(now' + READVERT_DELAY) = 1
                        [] req.task # NoTask /\ ~is_pending(req.task) ->
                             /\ after = req
                             /\ total = 0
                        [] req.task = NoTask /\ req.task_queue.buffer # <<>> ->
                             /\ after = [req EXCEPT
                                           !.task = Head(req.task_queue.buffer),
                                           !.task_queue = TaskQueue_pop(@),
                                           !.num_tasks_advertised = @ + 1]
                             /\ total = 1
                             /\ \E s \in ExpSamples : added(now' + s) = 1
                        [] OTHER ->
                             /\ after = req
                             /\ total = 0
    ]_vars

\* a result was handled while another requestor still had pending subtasks, and
\* that requestor's re-advertisement is in the queue, due READVERT_DELAY from now
C31_Witness ==
    /\ pc = "running"
    /\ lastEvent.event.tag = "SubTaskComputed"
    /\ \E x \in Requestors \ {lastEvent.event.requestor_id} :
          /\ requestors[x].task # NoTask
          /\ requestors[x].num_readvertisements > 0
          /\ BagIn(EventWrapper(now + READVERT_DELAY, TaskAdvertisement(x)), events)

\* the step is a handler that ran verify_subtask and went on to its end
VerifyStep == pc' = "running" /\ (ComputeStep \/ ExceededStep)

\* C32: verify_subtask effects. In a handler that verifies subtask s of requestor
\* r: when the verification is Done, s is appended to done of the task and
\* num_subtasks_computed grows by one; when it is Cancelled, s is appended to
\* pending again and num_subtasks_cancelled grows by one; when it is Pending
\* neither the task nor a counter changes. The task is the one complete_task
\* then sees (its snapshot when it clears it). The two counters of a requestor
\* change in no other step, and together by one exactly when the entry of a
\* dispatched subtask leaves the verification map: each dispatch is counted once,
\* by one counter.
C32_VerifyEffects ==
    [][/\ \A x \in Requestors :
             LET computed == requestors'[x].num_subtasks_computed
                               - requestors[x].num_subtasks_computed
                 cancelled == requestors'[x].num_subtasks_cancelled
                                - requestors[x].num_subtasks_cancelled
                 mine == VerifyStep /\ lastEvent'.event.requestor_id = x
             IN  /\ computed \in {0, 1} /\ cancelled \in {0, 1}
                 /\ computed + cancelled =
                      IF mine /\ lastVerify'.removed THEN 1 ELSE 0
                 /\ InFlight(requestors[x]) \ InFlight(requestors'[x]) =
                      IF mine /\ lastVerify'.removed
                      THEN {lastEvent'.event.subtask.id} ELSE {}
       /\ VerifyStep =>
             LET e == lastEvent'.event
                 req == requestors[e.requestor_id]
                 after == requestors'[e.requestor_id]
                 task == IF after.num_tasks_computed # req.num_tasks_computed
                         THEN lastCleared'[e.requestor_id].task ELSE after.task
                 computed == after.num_subtasks_computed - req.num_subtasks_computed
                 cancelled == after.num_subtasks_cancelled - req.num_subtasks_cancelled
             IN  CASE lastVerify'.status = "Done" ->
                        /\ task = [req.task EXCEPT !.done = Append(@, e.subtask)]
                        /\ computed = 1 /\ cancelled = 0
                   [] lastVerify'.status = "Cancelled" ->
                        /\ task = [req.task EXCEPT !.pending = Append(@, e.subtask),
                                                   !.size = @ + 1]
                        /\ computed = 0 /\ cancelled = 1
                   [] OTHER ->
                        /\ lastVerify'.status = "Pending"
                        /\ task = req.task
                        /\ computed = 0 /\ cancelled = 0
    ]_vars

\* the handler that ran last took the second null result of a subtask: the
\* verification was Cancelled, counted once, and the subtask is at the back of
\* pending again
C32_Witness ==
    /\ pc = "running"
    /\ lastEvent.event.tag = "SubTaskBudgetExceeded"
    /\ lastVerify.status = "Cancelled"
    /\ lastVerify.subtask = lastEvent.event.subtask.id
    /\ LET req == requestors[lastEvent.event.requestor_id]
       IN  /\ req.num_subtasks_cancelled = 1
           /\ req.num_subtasks_computed = 0
           /\ req.task.pending # <<>>
           /\ req.task.pending[Len(req.task.pending)] = lastEvent.event.subtask

\* C33: SubTaskComputed handling order. A handle_compute that runs to its end
\* leaves what the seven calls leave when made in the order finish_computing,
\* report_usage, verify_subtask, send_payment, receive_payment, complete_task,
\* schedule_advertise: the usage reported, paid for at the bid, is one
\* report_usage yields for the provider as finish_computing left it (Idle, its
\* computed counter incremented); the requestor is verify_subtask's (ratings
\* and blacklist updated) passed through send_payment, then complete_task, then
\* advertise, so a task this result completes is cleared and counted before the
\* requestor is advertised and the advertise already pulls from the queue; the
\* provider is the finished one with the payment received.
C33_HandleComputeOrder ==
    [][ComputeStep /\ pc' = "running" =>
         LET e == lastEvent'.event
             r == e.requestor_id
             p == e.provider_id
             k == <<r, e.subtask.id>>
             before == IF k \in DOMAIN paid THEN paid[k].sum ELSE 0
             finished == finish_computing(providers[p], now')
         IN  /\ finished.state = "Idle"
             /\ finished.num_subtasks_computed = providers[p].num_subtasks_computed + 1
             /\ \E reported_usage \in report_usage(finished, e.subtask, e.bid) :
                  LET v == verify_subtask(requestors[r], e.subtask, p, reported_usage)
                      pay == send_payment(v.requestor, e.subtask, e.bid, reported_usage)
                      c == complete_task(pay.requestor)
                  IN  /\ paid'[k].sum - before = reported_usage * e.bid
                      /\ lastVerify'.status = v.status
                      /\ providers'[p] = receive_payment(finished, pay.payment)
                      /\ \E sample \in ExpSamples :
                            requestors'[r] = advertise(c.requestor, sample).requestor
                      /\ c.cleared =>
                            /\ lastCleared'[r].task = v.requestor.task
                            /\ requestors'[r].num_tasks_computed
                                 = requestors[r].num_tasks_computed + 1
                            /\ requestors'[r].task =
                                 IF requestors[r].task_queue.buffer = <<>> THEN NoTask
                                 ELSE Head(requestors[r].task_queue.buffer)
    ]_vars

\* the provider whose report grows with its computed counter was paid for its
\* first subtask at the usage of a counter of one, and the result completed the
\* task: the requestor already holds the next task of its queue
C33_Witness ==
    /\ pc = "running"
    /\ lastEvent.event.tag = "SubTaskComputed"
    /\ behaviour(lastEvent.event.provider_id) = "LinearUsageInflation"
    /\ LET e == lastEvent.event
           prov == providers[e.provider_id]
           req == requestors[e.requestor_id]
       IN  /\ prov.num_subtasks_computed = 1
           /\ prov.state = "Idle"
           /\ prov.revenue = e.bid * (inflation_factor(prov.id)
                                        + prov.usage_factor * e.subtask.nominal_usage)
           /\ lastCleared[e.requestor_id].task.id = e.subtask.id - 1
           /\ req.num_tasks_computed = 1
           /\ req.num_tasks_advertised = 2
           /\ req.task # NoTask

\* C34: startup. Once World::started has run, every requestor holds a rating for
\* every provider, and keeps one for each through the run, so the rating of a
\* bidding provider is never missing. Before the first event is handled each
\* rating is the provider's usage_factor, as send_benchmark gave it, and each
\* requestor's advertise has run exactly once: it holds the first task of its
\* queue, counted once and never re-advertised, and the queue holds one
\* TaskAdvertisement of it and nothing else.
C34_Startup ==
    pc # "init" =>
       /\ \A r \in Requestors : DOMAIN requestors[r].ratings = DOMAIN providers
       /\ popCount = 0 =>
             /\ \A r \in Requestors :
                   /\ \A p \in DOMAIN providers :
                         requestors[r].ratings[p] = FracInt(providers[p].usage_factor)
                   /\ requestors[r].task = as_task(r, 1)
                   /\ requestors[r].num_tasks_advertised = 1
                   /\ requestors[r].num_readvertisements = 0
                   /\ AdCount(events, r) = 1
             /\ BagCardinality(events) = Cardinality(Requestors)

\* the simulation has started with all four providers and nothing is handled yet:
\* the requestors rate the slow provider at its usage factor of two
C34_Witness ==
    /\ pc = "running"
    /\ popCount = 0
    /\ DOMAIN providers = Providers
    /\ \A r \in Requestors : requestors[r].ratings[4] = FracInt(2)

\* the events the step put into the queue
Scheduled == {w \in BagToSet(events') : CopiesIn(w, events') > CopiesIn(w, events)}

\* C35: termination. Under the loop's fairness every run ends: the queue drains
\* or an event past the deadline is popped, and World::run returns. It ends
\* because virtual time cannot stand still: every event a step schedules is due
\* strictly after the time of the event being handled, each step takes one
\* event out of the queue and puts in at most one for each requestor and one for
\* each provider, and no handled event is past the deadline. This holds with a
\* repeating task queue and with repeated re-advertisement as well.
C35_Termination ==
    /\ <>(pc = "stopped")
    /\ [][/\ \A w \in Scheduled : w.time > now'
          /\ BagCardinality(events') <
                BagCardinality(events) + Cardinality(Requestors)
                   + Cardinality(DOMAIN providers)
          /\ pc' = "running" => now' <= until
       ]_vars

\* a run of requestors with repeating queues that re-advertised and pulled a task
\* again has ended on an event past the deadline
C35_Witness ==
    /\ pc = "stopped"
    /\ now > until
    /\ \E r \in Requestors :
          /\ requestors[r].task_queue.repeating
          /\ requestors[r].num_readvertisements > 1
          /\ requestors[r].num_tasks_advertised > Len(TaskSpecs(r))

-----------------------------------------------------------------------------
(* Properties of the defence mechanisms' bookkeeping *)

\* the number of usage samples the map holds for the providers ids
RECURSIVE SampleCount(_, _)
SampleCount(usages, ids) ==
    IF ids = {} THEN 0
    ELSE LET p == CHOOSE x \in ids : TRUE
         IN  Len(usages[p]) + SampleCount(usages, ids \ {p})

\* C36: CTasks complete_task frame. A complete_task call of CTasks leaves the
\* rating and the blacklist entry of every provider without a usage sample of
\* the finished task as they were, and leaves the per-task usage map empty.
\* Hence the map always holds exactly one sample for each subtask of the
\* current task that is done, and none of an earlier task.
C36_CompleteTaskFrame ==
    [][dm.kind = "CTasks" =>
        /\ dmCall'.op = "complete_task" =>
              /\ \A p \in DOMAIN dm.ratings \ DOMAIN dm.task_usages :
                    /\ dm'.ratings[p] = dm.ratings[p]
                    /\ p \in DOMAIN dm'.blacklisted_set <=> p \in DOMAIN dm.blacklisted_set
                    /\ p \in DOMAIN dm.blacklisted_set =>
                          dm'.blacklisted_set[p] = dm.blacklisted_set[p]
              /\ DOMAIN dm'.ratings = DOMAIN dm.ratings
              /\ \A p \in DOMAIN dm.task_usages : dm.task_usages[p] # <<>>
              /\ dm'.task_usages = NoMap
        /\ SampleCount(dm'.task_usages, DOMAIN dm'.task_usages) = Len(dmTask'.done)
    ]_vars

\* a complete_task call of CTasks has changed the ratings of the providers that
\* computed for the second task and of no other, and the map is empty
C36_Witness ==
    /\ dm.kind = "CTasks"
    /\ dmCall.op = "complete_task"
    /\ dmTask = NoTask
    /\ dm.task_usages = NoMap
    /\ \E p, q \in DmProviders :
          /\ dm.ratings[p] # FracInt(Log2(DmUsageFactor(p)))
          /\ dm.ratings[q] = FracInt(Log2(DmUsageFactor(q)))

-----------------------------------------------------------------------------
(* Properties of rank_offers on its own *)

\* the place of the offer of provider p in the list
PlaceOf(bids, p) == CHOOSE i \in DOMAIN bids : bids[i][1] = p

\* C37: rank_offers. The list rank_offers returns is a permutation of the list
\* it was given, in ascending order of the effective price bid * rating of the
\* provider, and offers of equal effective price are in it in the order they
\* have in the list given.
C37_StableRanking ==
    Len(callLog) = 2 /\ pc = "rank" =>
       LET bids == callLog[1].bids
           ranked == callLog[2].bids
           eff(b) == EffectivePrice(RkRatings, b)
       IN  /\ Len(ranked) = Len(bids)
           /\ {ranked[i] : i \in DOMAIN ranked} = {bids[i] : i \in DOMAIN bids}
           /\ \A i, j \in DOMAIN ranked : i < j => ~FracLt(eff(ranked[j]), eff(ranked[i]))
           /\ \A i, j \in DOMAIN ranked :
                 i < j /\ eff(ranked[i]) = eff(ranked[j]) =>
                    PlaceOf(bids, ranked[i][1]) < PlaceOf(bids, ranked[j][1])

-----------------------------------------------------------------------------
(* Properties that keep the handlers from aborting *)

\* the events in the queue that carry a result of subtask sid of requestor r
Outstanding(q, r, sid) ==
    LET res == {w \in BagToSet(q) :
                   /\ w.event.tag \in {"SubTaskComputed", "SubTaskBudgetExceeded"}
                   /\ w.event.requestor_id = r
                   /\ w.event.subtask.id = sid}
    IN  BagCardinality([w \in res |-> q[w]])

\* C38: results are expected. Every SubTaskComputed and SubTaskBudgetExceeded
\* event in the queue, and so every one that comes to be handled, is for a
\* requestor that has a current task the subtask was created with and a
\* verification entry for the subtask with fewer than REDUNDANCY_FACTOR results:
\* while the loop runs, the results entered and the events still to come are
\* REDUNDANCY_FACTOR together, and every entry has an event to come. So no handler of a result aborts: an abort can only come from the
\* handler of an advertisement.
C38_ResultsExpected ==
    /\ \A w \in BagToSet(events) :
          w.event.tag \in {"SubTaskComputed", "SubTaskBudgetExceeded"} =>
             LET req == requestors[w.event.requestor_id]
                 sid == w.event.subtask.id
             IN  /\ req.task # NoTask
                 /\ sid \in CreatedIds(req.id, req.task)
                 /\ sid \in DOMAIN req.verification_map
                 /\ Len(req.verification_map[sid]) < REDUNDANCY_FACTOR
                 /\ pc = "running" =>
                       Len(req.verification_map[sid]) + Outstanding(events, req.id, sid)
                          = REDUNDANCY_FACTOR
    /\ pc = "running" =>
          \A r \in DOMAIN requestors : \A sid \in DOMAIN requestors[r].verification_map :
             Outstanding(events, r, sid) > 0
    /\ pc = "panic" => lastEvent.event.tag = "TaskAdvertisement"

\* the first result of a subtask has been handled and entered, and the event of
\* the second is in the queue
C38_Witness ==
    /\ pc = "running"
    /\ lastEvent.event.tag \in {"SubTaskComputed", "SubTaskBudgetExceeded"}
    /\ LET req == requestors[lastEvent.event.requestor_id]
           sid == lastEvent.event.subtask.id
       IN  /\ sid \in DOMAIN req.verification_map
           /\ Len(req.verification_map[sid]) = 1
           /\ Outstanding(events, req.id, sid) = 1
           /\ req.num_subtasks_cancelled > 0

\* the offers of the step's advertisement that the requestor's filter lets through
Eligible == {b \in lastBids' :
                b[1] \notin requestors[lastEvent'.event.requestor_id].blacklisted_set}

\* C39: advertisements find a task. Whenever a TaskAdvertisement of requestor r
\* is handled with at least REDUNDANCY_FACTOR eligible offers (of Idle providers
\* r has not blacklisted), r has a current task, and select_offers does not
\* abort; a re-advertisement that fires after the last task of a queue that does
\* not repeat was completed and cleared is no exception.
C39_AdvertisedHasTask ==
    [][AdvertiseStep =>
         /\ Cardinality(Eligible) >= REDUNDANCY_FACTOR =>
               requestors[lastEvent'.event.requestor_id].task # NoTask
         /\ pc' # "panic"
    ]_vars

-----------------------------------------------------------------------------
(* Properties of the providers' bookkeeping *)

\* the events in the queue that carry a result of provider p
Computing(q, p) ==
    LET res == {w \in BagToSet(q) :
                   /\ w.event.tag \in {"SubTaskComputed", "SubTaskBudgetExceeded"}
                   /\ w.event.provider_id = p}
    IN  BagCardinality([w \in res |-> q[w]])

\* C40: provider bookkeeping. While the event loop runs, the queue holds at
\* most one SubTaskComputed or SubTaskBudgetExceeded event of a provider; the
\* provider is Busy exactly when it holds one; num_subtasks_assigned is
\* num_subtasks_computed + num_subtasks_cancelled, plus one when Busy; and a
\* handled advertisement sends a subtask only to providers that were Idle, one
\* to each at most.
C40_ProviderBookkeeping ==
    /\ [](pc = "running" =>
            \A p \in DOMAIN providers :
               LET prov == providers[p]
               IN  /\ Computing(events, p) <= 1
                   /\ prov.state = "Busy" <=> Computing(events, p) = 1
                   /\ prov.state \in {"Idle", "Busy"}
                   /\ prov.num_subtasks_assigned =
                        prov.num_subtasks_computed + prov.num_subtasks_cancelled
                           + (IF prov.state = "Busy" THEN 1 ELSE 0))
    /\ [][AdvertiseStep /\ pc' = "running" =>
            /\ \A i \in DOMAIN lastMessages' :
                  /\ providers[lastMessages'[i][1]].state = "Idle"
                  /\ providers'[lastMessages'[i][1]].state = "Busy"
            /\ \A i, j \in DOMAIN lastMessages' :
                  i # j => lastMessages'[i][1] # lastMessages'[j][1]
            /\ \A p \in DOMAIN providers :
                  providers'[p].num_subtasks_assigned - providers[p].num_subtasks_assigned
                     = IF p \in Recipients(lastMessages') THEN 1 ELSE 0
       ]_vars

\* a provider that has computed a subtask and has had one cancelled is Busy with
\* a third, and its one event is in the queue
C40_Witness ==
    /\ pc = "running"
    /\ \E p \in DOMAIN providers :
          /\ providers[p].state = "Busy"
          /\ Computing(events, p) = 1
          /\ providers[p].num_subtasks_computed > 0
          /\ providers[p].num_subtasks_cancelled > 0
          /\ providers[p].num_subtasks_assigned = 3
====
